---------------------------- MODULE Spec2Model ----------------------------
(***************************************************************************)
(* The authentication / session lifecycle of the Video-Tracking dashboard. *)
(*                                                                         *)
(*   - the session client: class AuthService (frontend authService.ts),    *)
(*     translated method by method, its async calls kept as call stacks    *)
(*     that suspend at fetch;                                              *)
(*   - the auth API of the Flask backend (/api/auth/...), whose code is    *)
(*     not part of the frontend sources: modelled from the specification   *)
(*     and AUTH_DOCUMENTATION.md.                                          *)
(*                                                                         *)
(* Time is counted in minutes.                                             *)
(***************************************************************************)
EXTENDS Integers, Sequences, FiniteSets, TLC

VARIABLES
    users,            \* credential store: email -> user row
    refreshTokens,    \* RefreshTokens table: token_hash -> row
    resetTokens,      \* PasswordResetTokens table: token_hash -> row
    nextRT,           \* next fresh refresh-token value
    nextPT,           \* next fresh reset-token value
    now,              \* server clock, minutes
    nTicks,           \* clock advances so far
    storeUp,          \* whether the server can read its store
    nCalls,           \* requests the server has answered so far
    last,             \* the last direct API call: its request and response
    accessToken,      \* AuthService.accessToken
    refreshToken,     \* AuthService.refreshToken
    localStorage,     \* browser localStorage: access_token, refresh_token, user
    tasks,            \* the async calls in progress: one call stack each
    done,             \* the call that ended last, and its result
    completedRevokes, \* refresh tokens whose revoke call has been answered
    revokedByReset,   \* refresh tokens that existed when their user's password was reset
    roleCheck,        \* the last hasRole / isAdmin / isAnalyst call and its result
    ctx,              \* AuthProvider state: user, loading, error
    page,             \* ResetPassword component state
    formCheck         \* the last validateForm call of a form and its result

vars == <<users, refreshTokens, resetTokens, nextRT, nextPT, now, nTicks, storeUp, nCalls, last,
          accessToken, refreshToken, localStorage, tasks, done, completedRevokes,
          revokedByReset, roleCheck, ctx, page, formCheck>>

serverVars == <<users, refreshTokens, resetTokens, nextRT, nextPT>>
clockVars  == <<now, nTicks, storeUp>>
apiVars    == <<nCalls, last>>
clientVars == <<accessToken, refreshToken, localStorage, ctx, page>>
taskVars   == <<tasks, done>>
ghostVars  == <<completedRevokes, revokedByReset>>
checkVars  == <<roleCheck, formCheck>>

-----------------------------------------------------------------------------
(* Bounds of the model *)

MaxTicks == 1
MaxRefreshTokens == 2
MaxResetTokens == 1
MaxTasks == 2
MaxCalls == 4

-----------------------------------------------------------------------------
(* Program constants *)

\* JWT_ACCESS_TOKEN_EXPIRES=15 (minutes)
AccessTokenMinutes == 15
\* JWT_REFRESH_TOKEN_EXPIRES=30 (days)
RefreshTokenDays == 30
\* reset tokens are short-lived: one hour
ResetTokenMinutes == 60
\* password policy: minimum length
MinPasswordLength == 8

AccessTTL  == AccessTokenMinutes
RefreshTTL == RefreshTokenDays * 24 * 60
ResetTTL   == ResetTokenMinutes

-----------------------------------------------------------------------------
(* Values *)

Null == [k |-> "null"]

GUEST == 1
ANALYST == 2
ADMIN == 3

KnownRoles == {"guest", "analyst", "admin"}

\* Role.level on the server: the role hierarchy of the backend
RoleLevel(role) ==
    CASE role = "guest"   -> GUEST
      [] role = "analyst" -> ANALYST
      [] role = "admin"   -> ADMIN
      [] OTHER            -> 0

\* passwords are sequences of character classes: U(pper) L(ower) D(igit) S(pecial)
AdminPass  == <<"U", "L", "L", "L", "L", "U", "L", "L", "L", "D", "D", "D", "S">>
NewPass    == <<"U", "L", "L", "U", "L", "L", "L", "L", "L", "U", "L", "L", "L", "D", "D", "D", "S">>
WeakPass   == <<"L", "L", "L", "L">>

Passwords == {AdminPass, NewPass, WeakPass}

HasClass(pw, c) == \E i \in 1..Len(pw) : pw[i] = c

\* password strength requirements of the backend
PasswordPolicyOK(pw) ==
    /\ Len(pw) >= MinPasswordLength
    /\ HasClass(pw, "U")
    /\ HasClass(pw, "L")
    /\ HasClass(pw, "D")

\* bcrypt: only the hash is stored, and verification compares hashes
HashPassword(pw) == <<"bcrypt", pw>>

\* refresh and reset tokens are opaque random values, stored as a hash
TokenHash(raw) == <<"sha", raw>>

AdminEmail  == "admin@videotracking.com"
GuestEmail  == "guest@videotracking.com"
NobodyEmail == "nobody@videotracking.com"
Emails == {AdminEmail, GuestEmail, NobodyEmail}

\* a User row
UserRow(pw, role, active) ==
    [password_hash |-> HashPassword(pw), role |-> role, is_active |-> active]

\* the user summary the API returns (user.to_dict())
UserJson(email, row) ==
    [k |-> "user", email |-> email, role |-> row.role, is_active |-> row.is_active]

\* a signed access token: its claims
Jwt(email, role, exp) == [k |-> "jwt", sub |-> email, role |-> role, exp |-> exp]

\* an opaque refresh token
RT(raw) == [k |-> "rt", raw |-> raw]


-----------------------------------------------------------------------------
(* HTTP messages *)

EpLogin        == "/api/auth/login"
EpSignup       == "/api/auth/signup"
EpRefresh      == "/api/auth/refresh"
EpLogout       == "/api/auth/logout"
EpMe           == "/api/auth/me"
EpRequestReset == "/api/auth/request-password-reset"
EpValidate     == "/api/auth/validate-reset-token"
EpReset        == "/api/auth/reset-password"
EpDashboard    == "/api/analytics/dashboard"

\* a request: the endpoint, the Authorization bearer and the JSON body's fields
Req(ep, bearer) ==
    [ep |-> ep, bearer |-> bearer, email |-> "", password |-> <<>>,
     refresh_token |-> Null, token |-> 0, role |-> ""]

\* a response: the status and the JSON body's fields (Null: the field is absent)
Resp(status, success, msg) ==
    [k |-> "resp", status |-> status, success |-> success, message |-> msg,
     access_token |-> Null, refresh_token |-> Null, user |-> Null]

\* response.ok of fetch
Ok(resp) == resp.status >= 200 /\ resp.status <= 299

-----------------------------------------------------------------------------
(* The auth API of the backend.  Every endpoint is one transaction on the   *)
(* store: db is [users, refreshTokens, resetTokens, nextRT, nextPT], t the  *)
(* server's clock, and the result is the response and the store after it.   *)

Db == [users |-> users, refreshTokens |-> refreshTokens, resetTokens |-> resetTokens,
       nextRT |-> nextRT, nextPT |-> nextPT]

Out(resp, db) == [resp |-> resp, db |-> db]

\* the single generic authentication failure
AuthFailure == Resp(401, FALSE, "Invalid or expired token")

\* a validity check that does not look at the revoked flag
RefreshTokenValidUnrevoked(db, raw, t) ==
    /\ TokenHash(raw) \in DOMAIN db.refreshTokens
    /\ t < db.refreshTokens[TokenHash(raw)].expires_at

\* RefreshToken.is_valid(): found, not revoked, not expired - one read of one row
RefreshTokenValid(db, raw, t) ==
    /\ TokenHash(raw) \in DOMAIN db.refreshTokens
    /\ ~db.refreshTokens[TokenHash(raw)].is_revoked
    /\ t < db.refreshTokens[TokenHash(raw)].expires_at

\* Token Issuer: the access token of a user, role read from the store
IssueAccessToken(db, email, t) == Jwt(email, db.users[email].role, t + AccessTTL)

\* POST /api/auth/login
ServeLogin(db, req, t) ==
    IF \/ req.email \notin DOMAIN db.users
       \/ db.users[req.email].password_hash # HashPassword(req.password)
    THEN Out(Resp(401, FALSE, "Invalid email or password"), db)
    ELSE IF ~db.users[req.email].is_active
    THEN Out(Resp(403, FALSE, "Account is inactive"), db)
    ELSE Out([Resp(200, TRUE, "Login successful") EXCEPT
                  !.access_token = IssueAccessToken(db, req.email, t),
                  !.refresh_token = RT(db.nextRT),
                  !.user = UserJson(req.email, db.users[req.email])],
             [db EXCEPT
                  !.refreshTokens = [h \in DOMAIN @ \cup {TokenHash(db.nextRT)} |->
                      IF h = TokenHash(db.nextRT)
                      THEN [user |-> req.email, expires_at |-> t + RefreshTTL,
                            is_revoked |-> FALSE]
                      ELSE @[h]],
                  !.nextRT = @ + 1])

\* a refresh that does not look at the active flag of the account
ServeRefreshAnyAccount(db, req, t) ==
    IF \/ req.refresh_token.k # "rt"
       \/ ~RefreshTokenValid(db, req.refresh_token.raw, t)
    THEN Out(AuthFailure, db)
    ELSE LET email == db.refreshTokens[TokenHash(req.refresh_token.raw)].user IN
         Out([Resp(200, TRUE, "Token refreshed") EXCEPT
                  !.access_token = IssueAccessToken(db, email, t),
                  !.user = UserJson(email, db.users[email])],
             db)

\* POST /api/auth/refresh: the refresh token is not rotated
ServeRefresh(db, req, t) ==
    IF \/ req.refresh_token.k # "rt"
       \/ ~RefreshTokenValid(db, req.refresh_token.raw, t)
    THEN Out(AuthFailure, db)
    ELSE LET email == db.refreshTokens[TokenHash(req.refresh_token.raw)].user IN
         IF ~db.users[email].is_active
         THEN Out(AuthFailure, db)
         ELSE Out([Resp(200, TRUE, "Token refreshed") EXCEPT
                       !.access_token = IssueAccessToken(db, email, t),
                       !.user = UserJson(email, db.users[email])],
                  db)

\* a revoke that takes the user's other devices with it
RevokeWholeUser(db, raw) ==
    IF TokenHash(raw) \in DOMAIN db.refreshTokens
    THEN [db EXCEPT !.refreshTokens = [h \in DOMAIN @ |->
            IF @[h].user = @[TokenHash(raw)].user
            THEN [@[h] EXCEPT !.is_revoked = TRUE] ELSE @[h]]]
    ELSE db

\* revoke(rawRefreshToken): marks the stored token revoked; unknown: no-op
Revoke(db, raw) ==
    IF TokenHash(raw) \in DOMAIN db.refreshTokens
    THEN [db EXCEPT !.refreshTokens[TokenHash(raw)].is_revoked = TRUE]
    ELSE db

\* a revokeAll that forgets the tokens
RevokeNone(db, email) == db

\* revokeAll(userId): every refresh token of the user, on every device
RevokeAll(db, email) ==
    [db EXCEPT !.refreshTokens = [h \in DOMAIN @ |->
        IF @[h].user = email THEN [@[h] EXCEPT !.is_revoked = TRUE] ELSE @[h]]]

\* POST /api/auth/logout: always succeeds
ServeLogout(db, req, t) ==
    Out(Resp(200, TRUE, "Logged out successfully"),
        IF req.refresh_token.k = "rt" THEN Revoke(db, req.refresh_token.raw) ELSE db)

\* authenticate(rawAccessToken): signature (a token is one the issuer made),
\* expiry, and the account still there and active
Authenticate(db, bearer, t) ==
    /\ bearer.k = "jwt"
    /\ t < bearer.exp
    /\ bearer.sub \in DOMAIN db.users
    /\ db.users[bearer.sub].is_active

\* authorize(identity, requiredRole)
Authorize(role, requiredRole) == RoleLevel(role) >= RoleLevel(requiredRole)

\* GET /api/auth/me
ServeMe(db, req, t) ==
    IF ~Authenticate(db, req.bearer, t)
    THEN Out(AuthFailure, db)
    ELSE Out([Resp(200, TRUE, "") EXCEPT
                  !.user = UserJson(req.bearer.sub, db.users[req.bearer.sub])],
             db)

\* a protected endpoint of the analytics, collection and payment APIs
ServeProtected(db, req, t) ==
    IF ~Authenticate(db, req.bearer, t)
    THEN Out(AuthFailure, db)
    ELSE Out(Resp(200, TRUE, ""), db)

\* the one answer of request-password-reset
ResetRequested ==
    Resp(200, TRUE, "If the email exists, password reset instructions have been sent")

\* a request-password-reset that tells an unknown email from a known one
ServeRequestResetTelling(db, req, t) ==
    IF req.email \in DOMAIN db.users
    THEN Out(ResetRequested, db)
    ELSE Out(Resp(404, FALSE, "Email not found"), db)

\* POST /api/auth/request-password-reset
ServeRequestReset(db, req, t) ==
    IF req.email \in DOMAIN db.users /\ db.users[req.email].is_active
    THEN Out(ResetRequested,
             [db EXCEPT
                  !.resetTokens = [h \in DOMAIN @ \cup {TokenHash(db.nextPT)} |->
                      IF h = TokenHash(db.nextPT)
                      THEN [user |-> req.email, expires_at |-> t + ResetTTL,
                            used_at |-> -1]
                      ELSE @[h]],
                  !.nextPT = @ + 1])
    ELSE Out(ResetRequested, db)

\* a reset token check that forgets used_at
ResetTokenValidReusable(db, raw, t) ==
    /\ TokenHash(raw) \in DOMAIN db.resetTokens
    /\ t < db.resetTokens[TokenHash(raw)].expires_at

\* PasswordResetToken.is_valid(): found, never used, not expired
ResetTokenValid(db, raw, t) ==
    /\ TokenHash(raw) \in DOMAIN db.resetTokens
    /\ db.resetTokens[TokenHash(raw)].used_at = -1
    /\ t < db.resetTokens[TokenHash(raw)].expires_at

\* the one answer for a reset token that cannot be used
InvalidResetToken == Resp(400, FALSE, "Invalid or expired reset token")

\* GET/POST validate-reset-token
ServeValidate(db, req, t) ==
    IF ResetTokenValid(db, req.token, t)
    THEN Out(Resp(200, TRUE, "Token is valid"), db)
    ELSE Out(InvalidResetToken, db)

\* POST /api/auth/reset-password
ServeReset(db, req, t) ==
    IF ~ResetTokenValid(db, req.token, t)
    THEN Out(InvalidResetToken, db)
    ELSE IF ~PasswordPolicyOK(req.password)
    THEN Out(Resp(400, FALSE, "validation_error"), db)
    ELSE LET email == db.resetTokens[TokenHash(req.token)].user IN
         Out(Resp(200, TRUE, "Password reset successfully"),
             RevokeAll([db EXCEPT
                            !.resetTokens[TokenHash(req.token)].used_at = t,
                            !.users[email].password_hash = HashPassword(req.password)],
                       email))

\* a signup that leaves the new account inactive
ServeSignupInactive(db, req, t) ==
    IF req.email \in DOMAIN db.users
    THEN Out(Resp(400, FALSE, "Email already registered"), db)
    ELSE IF ~PasswordPolicyOK(req.password) \/ req.role \notin KnownRoles \cup {""}
    THEN Out(Resp(400, FALSE, "validation_error"), db)
    ELSE LET row == UserRow(req.password, IF req.role = "" THEN "guest" ELSE req.role, FALSE) IN
         Out([Resp(201, TRUE, "User registered successfully") EXCEPT
                  !.user = UserJson(req.email, row)],
             [db EXCEPT !.users = [e \in DOMAIN @ \cup {req.email} |->
                                      IF e = req.email THEN row ELSE @[e]]])

\* POST /api/auth/signup
ServeSignup(db, req, t) ==
    IF req.email \in DOMAIN db.users
    THEN Out(Resp(400, FALSE, "Email already registered"), db)
    ELSE IF ~PasswordPolicyOK(req.password) \/ req.role \notin KnownRoles \cup {""}
    THEN Out(Resp(400, FALSE, "validation_error"), db)
    ELSE LET row == UserRow(req.password, IF req.role = "" THEN "guest" ELSE req.role, TRUE) IN
         Out([Resp(201, TRUE, "User registered successfully") EXCEPT
                  !.user = UserJson(req.email, row)],
             [db EXCEPT !.users = [e \in DOMAIN @ \cup {req.email} |->
                                      IF e = req.email THEN row ELSE @[e]]])

\* the router
Serve(db, req, t) ==
    CASE req.ep = EpLogin        -> ServeLogin(db, req, t)
      [] req.ep = EpSignup       -> ServeSignup(db, req, t)
      [] req.ep = EpRefresh      -> ServeRefresh(db, req, t)
      [] req.ep = EpLogout       -> ServeLogout(db, req, t)
      [] req.ep = EpMe           -> ServeMe(db, req, t)
      [] req.ep = EpDashboard    -> ServeProtected(db, req, t)
      [] req.ep = EpRequestReset -> ServeRequestReset(db, req, t)
      [] req.ep = EpValidate     -> ServeValidate(db, req, t)
      [] req.ep = EpReset        -> ServeReset(db, req, t)

\* the store has room for what the request may create
CanServe(req) ==
    /\ Serve(Db, req, now).db.nextRT <= MaxRefreshTokens + 1
    /\ Serve(Db, req, now).db.nextPT <= MaxResetTokens + 1

ServerError == Resp(500, FALSE, "Internal server error")

\* a server that takes a refresh token for not revoked when it cannot read the
\* store
ServeStoreDownOpen(db, req, t) ==
    IF req.ep = EpRefresh /\ req.refresh_token.k = "rt"
                          /\ RefreshTokenValidUnrevoked(db, req.refresh_token.raw, t)
    THEN Out([Resp(200, TRUE, "Token refreshed") EXCEPT
                  !.access_token = IssueAccessToken(db, db.refreshTokens[
                                       TokenHash(req.refresh_token.raw)].user, t)],
             db)
    ELSE Out(ServerError, db)

\* the store cannot be read: a refresh, whose revocation check cannot be
\* completed, is answered as for a revoked token; nothing is written
ServeStoreDown(db, req, t) ==
    IF req.ep = EpRefresh THEN Out(AuthFailure, db) ELSE Out(ServerError, db)

\* a request is handled, with the store readable or not
Handle(db, req, t, readable) ==
    IF readable THEN Serve(db, req, t) ELSE ServeStoreDown(db, req, t)

\* the store after a transaction
Commit(db) ==
    /\ users' = db.users
    /\ refreshTokens' = db.refreshTokens
    /\ resetTokens' = db.resetTokens
    /\ nextRT' = db.nextRT
    /\ nextPT' = db.nextPT


-----------------------------------------------------------------------------
(* The session client: class AuthService.                                   *)
(*                                                                          *)
(* An async call is a stack of frames [fn, pc, req, resp]; the top frame of *)
(* a suspended call is the fetch it awaits.  JavaScript runs a call from    *)
(* the moment its fetch settles to its next fetch (or its end) without      *)
(* interleaving: Run does the same on a configuration                       *)
(*   [stk, sig, at, rt, ls, spawn, nRefresh, nRetry]                        *)
(* where sig is what the top frame receives (a returned value, a thrown     *)
(* error) or "wait", at / rt / ls are this.accessToken, this.refreshToken   *)
(* and localStorage, and spawn holds the calls started without await.       *)

Frame(fn, pc, req) == [fn |-> fn, pc |-> pc, req |-> req, resp |-> Null]

Bool(b) == [k |-> "bool", b |-> b]
Err(msg) == [k |-> "error", message |-> msg]
Ret(v) == [k |-> "ret", v |-> v]
Throw(e) == [k |-> "throw", v |-> e]
Wait == [k |-> "wait", v |-> Null]

\* JSON.stringify and JSON.parse of the stored user
JSONstringify(v) == [k |-> "json", v |-> v]
JSONparse(str) == IF str.k = "json" THEN Ret(str.v) ELSE Throw(Err("SyntaxError"))

\* getCurrentUserFromStorage(), lines 655-662
getCurrentUserFromStorage(ls) ==
    IF ls.user = Null THEN Null
    ELSE IF JSONparse(ls.user).k = "throw" THEN Null
    ELSE JSONparse(ls.user).v

\* the Authorization header of `Bearer ${token}`
BearerOf(token) == IF token = Null THEN [k |-> "garbage"] ELSE token

Top(stk) == stk[Len(stk)]
Pop(stk) == SubSeq(stk, 1, Len(stk) - 1)
SetTopPc(stk, pc) == [stk EXCEPT ![Len(stk)].pc = pc]

\* request(), lines 415-435: the headers are built, fetch is called and awaited
CallRequest(c, req) ==
    [c EXCEPT !.stk = @ \o << Frame("request", "fetch1", [req EXCEPT !.bearer = c.at]),
                              Frame("fetch", "sent", [req EXCEPT !.bearer = c.at]) >>,
              !.sig = Wait,
              !.nRefresh = IF req.ep = EpRefresh THEN @ + 1 ELSE @]

\* saveTokensToStorage
saveTokensToStorage(c, access, refresh) ==
    [c EXCEPT !.at = access, !.rt = refresh,
              !.ls.access_token = access, !.ls.refresh_token = refresh]

\* clearTokensFromStorage
clearTokensFromStorage(c) ==
    [c EXCEPT !.at = Null, !.rt = Null,
              !.ls = [access_token |-> Null, refresh_token |-> Null, user |-> Null]]

\* refreshAccessToken(), up to its await
CallRefreshAccessToken(c) ==
    IF c.rt = Null
    THEN [c EXCEPT !.sig = Ret(Bool(FALSE))]
    ELSE CallRequest([c EXCEPT !.stk = Append(@, Frame("refreshAccessToken", "await", Req("", Null)))],
                     [Req(EpRefresh, Null) EXCEPT !.refresh_token = c.rt])

\* a logout that sends its request whether or not a refresh token is held
CallLogoutAlways(c) ==
    CallRequest([c EXCEPT !.stk = Append(@, Frame("logout", "await", Req("", Null)))],
                [Req(EpLogout, Null) EXCEPT !.refresh_token = c.rt])

\* logout(), up to its await; without a refresh token it runs to its end
CallLogout(c) ==
    IF c.rt # Null
    THEN CallRequest([c EXCEPT !.stk = Append(@, Frame("logout", "await", Req("", Null)))],
                     [Req(EpLogout, Null) EXCEPT !.refresh_token = c.rt])
    ELSE [clearTokensFromStorage(c) EXCEPT !.sig = Ret(Null)]

\* this.logout() without await (line 452): the call runs to its first await on
\* its own stack and the caller goes on
SpawnLogout(c) ==
    LET d == CallLogout([c EXCEPT !.stk = << >>, !.nRefresh = 0, !.nRetry = 0]) IN
    [c EXCEPT !.at = d.at, !.rt = d.rt, !.ls = d.ls,
              !.spawn = IF d.stk = << >> THEN @ ELSE Append(@, d.stk)]

\* request(), lines 436-460: the first fetch has settled
RequestOnResponse(c) ==
    LET f == Top(c.stk) IN
    IF c.sig.k = "throw"
    THEN [c EXCEPT !.stk = Pop(@)]
    ELSE IF Ok(c.sig.v)
    THEN [c EXCEPT !.stk = Pop(@)]
    ELSE IF c.sig.v.status = 401 /\ c.rt # Null
    THEN CallRefreshAccessToken([c EXCEPT !.stk = SetTopPc(@, "refreshing")])
    ELSE [c EXCEPT !.stk = Pop(@), !.sig = Throw(Err(c.sig.v.message))]

\* a retry that sends the request again as it was, old token and all
RequestOnRefreshedStale(c) ==
    LET f == Top(c.stk) IN
    IF c.sig.v.b
    THEN [c EXCEPT !.stk = SetTopPc(@, "fetch2") \o << Frame("fetch", "sent", f.req) >>,
                   !.sig = Wait,
                   !.nRefresh = IF f.req.ep = EpRefresh THEN @ + 1 ELSE @,
                   !.nRetry = @ + 1]
    ELSE [SpawnLogout(c) EXCEPT !.stk = Pop(@),
                                !.sig = Throw(Err("Session expired. Please login again."))]

\* request(), lines 441-454: refreshAccessToken has returned
RequestOnRefreshed(c) ==
    LET f == Top(c.stk) IN
    IF c.sig.v.b
    THEN [c EXCEPT !.stk = SetTopPc(@, "fetch2") \o
                           << Frame("fetch", "sent", [f.req EXCEPT !.bearer = BearerOf(c.at)]) >>,
                   !.sig = Wait,
                   !.nRefresh = IF f.req.ep = EpRefresh THEN @ + 1 ELSE @,
                   !.nRetry = @ + 1]
    ELSE [SpawnLogout(c) EXCEPT !.stk = Pop(@),
                                !.sig = Throw(Err("Session expired. Please login again."))]

\* request(), lines 448-449: the retry has settled; its body is returned as it is
RequestOnRetry(c) == [c EXCEPT !.stk = Pop(@)]

\* login(), lines 503-515
LoginOnResponse(c) ==
    LET r == c.sig.v
        saved == IF c.sig.k = "ret" /\ r.success /\ r.access_token # Null /\ r.refresh_token # Null
                 THEN LET s1 == saveTokensToStorage(c, r.access_token, r.refresh_token) IN
                      IF r.user # Null
                      THEN [s1 EXCEPT !.ls.user = JSONstringify(r.user)]
                      ELSE s1
                 ELSE c
    IN [saved EXCEPT !.stk = Pop(@)]

\* a refreshAccessToken that keeps the stored user as it was
RefreshOnResponseKeepUser(c) ==
    LET r == c.sig.v IN
    IF c.sig.k = "ret" /\ r.success /\ r.access_token # Null
    THEN [c EXCEPT !.at = r.access_token,
                   !.ls.access_token = r.access_token,
                   !.stk = Pop(@),
                   !.sig = Ret(Bool(TRUE))]
    ELSE [c EXCEPT !.stk = Pop(@), !.sig = Ret(Bool(FALSE))]

\* a refreshAccessToken that takes the refresh token of the response as login does
RefreshOnResponseRotating(c) ==
    LET r == c.sig.v IN
    IF c.sig.k = "ret" /\ r.success /\ r.access_token # Null
    THEN [saveTokensToStorage(c, r.access_token, r.refresh_token) EXCEPT
                   !.ls.user = IF r.user # Null THEN JSONstringify(r.user) ELSE @,
                   !.stk = Pop(@),
                   !.sig = Ret(Bool(TRUE))]
    ELSE [c EXCEPT !.stk = Pop(@), !.sig = Ret(Bool(FALSE))]

\* a refreshAccessToken that keeps the new access token in memory only
RefreshOnResponseMemoryOnly(c) ==
    LET r == c.sig.v IN
    IF c.sig.k = "ret" /\ r.success /\ r.access_token # Null
    THEN [c EXCEPT !.at = r.access_token,
                   !.stk = Pop(@),
                   !.sig = Ret(Bool(TRUE))]
    ELSE [c EXCEPT !.stk = Pop(@), !.sig = Ret(Bool(FALSE))]

\* refreshAccessToken(), lines 550-566
RefreshOnResponse(c) ==
    LET r == c.sig.v IN
    IF c.sig.k = "ret" /\ r.success /\ r.access_token # Null
    THEN [c EXCEPT !.at = r.access_token,
                   !.ls.access_token = r.access_token,
                   !.ls.user = IF r.user # Null THEN JSONstringify(r.user) ELSE @,
                   !.stk = Pop(@),
                   !.sig = Ret(Bool(TRUE))]
    ELSE [c EXCEPT !.stk = Pop(@), !.sig = Ret(Bool(FALSE))]

\* a logout that clears the tokens only when its request did not throw
LogoutOnResponseNoFinally(c) ==
    IF c.sig.k = "throw"
    THEN [c EXCEPT !.stk = Pop(@), !.sig = Ret(Null)]
    ELSE [clearTokensFromStorage(c) EXCEPT !.stk = Pop(@), !.sig = Ret(Null)]

\* logout(), lines 579-583: whatever the request did, the tokens are cleared
LogoutOnResponse(c) ==
    [clearTokensFromStorage(c) EXCEPT !.stk = Pop(@), !.sig = Ret(Null)]

\* getCurrentUser(), lines 590-599
GetCurrentUserOnResponse(c) ==
    LET r == c.sig.v IN
    IF c.sig.k = "ret" /\ r.success /\ r.user # Null
    THEN [c EXCEPT !.ls.user = JSONstringify(r.user), !.stk = Pop(@), !.sig = Ret(r.user)]
    ELSE [c EXCEPT !.stk = Pop(@), !.sig = Ret(Null)]

\* AuthContext.logout, lines 138-152, up to its await
CallCtxLogout(c) ==
    CallLogout([c EXCEPT !.ctx.loading = TRUE,
                         !.stk = Append(@, Frame("AuthContext.logout", "await", Req("", Null)))])

\* AuthContext.login, lines 78-83, up to its await
CallCtxLogin(c, req) ==
    CallRequest([c EXCEPT !.ctx.loading = TRUE,
                          !.ctx.error = Null,
                          !.stk = @ \o << Frame("AuthContext.login", "await", Req("", Null)),
                                          Frame("login", "await", Req("", Null)) >>],
                req)

\* error.message || default
MessageOr(msg, default) == IF msg = "" THEN default ELSE msg

\* the body of the request of signup(), lines 521-527
SignupRequest(email, password, role) ==
    [Req(EpSignup, Null) EXCEPT !.email = email, !.password = password, !.role = role]

\* AuthContext.signup, lines 99-104, and signup(), lines 518-528, up to the await
CallCtxSignup(c, email, password) ==
    CallRequest([c EXCEPT !.ctx.loading = TRUE,
                          !.ctx.error = Null,
                          !.stk = @ \o << Frame("AuthContext.signup", "await", Req("", Null)),
                                          Frame("signup", "await", Req("", Null)) >>],
                SignupRequest(email, password, "guest"))

\* AuthContext.signup, lines 104-135: authService.signup() has returned or thrown
CtxSignupOnReturn(c) ==
    IF c.sig.k = "ret" /\ c.sig.v.success
    THEN [c EXCEPT !.ctx.loading = FALSE,
                   !.stk = Pop(@),
                   !.sig = Ret(Null)]
    ELSE LET error == IF c.sig.k = "throw" THEN c.sig.v
                      ELSE Err(MessageOr(c.sig.v.message, "Signup failed"))
         IN  [c EXCEPT !.ctx.error = MessageOr(error.message, "An error occurred during signup"),
                       !.ctx.loading = FALSE,
                       !.stk = Pop(@),
                       !.sig = Throw(error)]

\* AuthContext.login, lines 83-96: authService.login() has returned or thrown
CtxLoginOnReturn(c) ==
    IF c.sig.k = "ret" /\ c.sig.v.success /\ c.sig.v.user # Null
    THEN [c EXCEPT !.ctx.user = c.sig.v.user,
                   !.ctx.loading = FALSE,
                   !.stk = Pop(@),
                   !.sig = Ret(Null)]
    ELSE LET error == IF c.sig.k = "throw" THEN c.sig.v
                      ELSE Err(MessageOr(c.sig.v.message, "Login failed"))
         IN  [c EXCEPT !.ctx.error = MessageOr(error.message, "An error occurred during login"),
                       !.ctx.loading = FALSE,
                       !.stk = Pop(@),
                       !.sig = Throw(error)]

\* AuthContext.logout, lines 141-151: authService.logout() has returned or thrown
CtxLogoutOnReturn(c) ==
    [c EXCEPT !.ctx = [user |-> Null, loading |-> FALSE, error |-> Null],
              !.stk = Pop(@),
              !.sig = Ret(Null)]

\* resetPassword(), lines 615-629, and the other methods that return what
\* request() returned and rethrow what it threw
PassOn(c) == [c EXCEPT !.stk = Pop(@)]

\* the token of the URL, searchParams.get('token')
PT(raw) == [k |-> "pt", raw |-> raw]

\* ResetPassword: the component is mounted and its effect runs validateToken,
\* lines 37-46, up to the await; defined says whether authService has a
\* validateResetToken to call
MountResetPassword(c, token, defined) ==
    LET fresh == [mounted |-> TRUE, token |-> token, validatingToken |-> TRUE,
                  tokenValid |-> FALSE, error |-> "", success |-> "", loading |-> FALSE]
    IN  IF token = Null
        THEN [c EXCEPT !.page = [fresh EXCEPT !.error = "Token de redefinicao nao encontrado",
                                              !.validatingToken = FALSE],
                       !.sig = Ret(Null)]
        ELSE IF ~defined
        THEN [c EXCEPT !.page = [fresh EXCEPT !.error = "Erro ao validar token",
                                              !.validatingToken = FALSE],
                       !.sig = Ret(Null)]
        ELSE CallRequest([c EXCEPT !.page = fresh,
                                   !.stk = @ \o << Frame("ResetPassword.validateToken", "await",
                                                         Req("", Null)),
                                                   Frame("validateResetToken", "await",
                                                         Req("", Null)) >>],
                         [Req(EpValidate, Null) EXCEPT !.token = token.raw])

\* a validateToken that shows the form when the validation could not be done
ValidateTokenOnReturnOpen(c) ==
    [c EXCEPT !.page = IF c.sig.k = "ret" /\ ~c.sig.v.success
                       THEN [@ EXCEPT !.error = MessageOr(c.sig.v.message,
                                                          "Token invalido ou expirado"),
                                      !.validatingToken = FALSE]
                       ELSE [@ EXCEPT !.tokenValid = TRUE, !.validatingToken = FALSE],
              !.stk = Pop(@),
              !.sig = Ret(Null)]

\* ResetPassword.validateToken, lines 46-58: validateResetToken has returned
\* or thrown
ValidateTokenOnReturn(c) ==
    [c EXCEPT !.page = IF c.sig.k = "ret"
                       THEN IF c.sig.v.success
                            THEN [@ EXCEPT !.tokenValid = TRUE, !.validatingToken = FALSE]
                            ELSE [@ EXCEPT !.error = MessageOr(c.sig.v.message,
                                                               "Token invalido ou expirado"),
                                           !.validatingToken = FALSE]
                       ELSE [@ EXCEPT !.error = "Erro ao validar token",
                                      !.validatingToken = FALSE],
              !.stk = Pop(@),
              !.sig = Ret(Null)]

\* what the component renders, lines 162-215
Screen(pg) ==
    IF ~pg.mounted THEN "none"
    ELSE IF pg.validatingToken THEN "validating"
    ELSE IF ~pg.tokenValid THEN "invalid"
    ELSE "form"

\* ResetPassword.handleSubmit, lines 113-129, up to the await
HandleSubmit(c, f, errors) ==
    LET cleared == [c.page EXCEPT !.error = "", !.success = ""] IN
    IF errors # {}
    THEN [c EXCEPT !.page = cleared, !.sig = Ret(Null)]
    ELSE IF c.page.token = Null
    THEN [c EXCEPT !.page = [cleared EXCEPT !.error = "Token de redefinicao nao encontrado"],
                   !.sig = Ret(Null)]
    ELSE CallRequest([c EXCEPT !.page = [cleared EXCEPT !.loading = TRUE],
                               !.stk = @ \o << Frame("ResetPassword.handleSubmit", "await",
                                                     Req("", Null)),
                                               Frame("resetPassword", "await", Req("", Null)) >>],
                     [Req(EpReset, Null) EXCEPT !.token = c.page.token.raw,
                                                !.password = f.newPassword])

\* ResetPassword.handleSubmit, lines 129-149: resetPassword has returned or thrown
HandleSubmitOnReturn(c) ==
    [c EXCEPT !.page = IF c.sig.k = "ret"
                       THEN IF c.sig.v.success
                            THEN [@ EXCEPT !.success = "Senha redefinida com sucesso!",
                                           !.loading = FALSE]
                            ELSE [@ EXCEPT !.error = MessageOr(c.sig.v.message,
                                                               "Erro ao redefinir senha"),
                                           !.loading = FALSE]
                       ELSE [@ EXCEPT !.error = "Erro ao redefinir senha. Tente novamente.",
                                      !.loading = FALSE],
              !.stk = Pop(@),
              !.sig = Ret(Null)]

\* a call through the axios instance of AnalyticsService, CollectionService or
\* PaymentService: the request interceptor attaches authService.getAccessToken()
CallService(c) ==
    [c EXCEPT !.stk = @ \o << Frame("axios", "await", Req("", Null)),
                              Frame("fetch", "sent", Req(EpDashboard, c.at)) >>,
              !.sig = Wait]

\* the response interceptor of the service clients: on a 401 answer
\* authService.logout() is called, not awaited, and the error is thrown on
ServiceOnResponse(c) ==
    IF c.sig.k = "throw"
    THEN [c EXCEPT !.stk = Pop(@)]
    ELSE IF Ok(c.sig.v)
    THEN [c EXCEPT !.stk = Pop(@)]
    ELSE IF c.sig.v.status = 401
    THEN [SpawnLogout(c) EXCEPT !.stk = Pop(@), !.sig = Throw(Err(c.sig.v.message))]
    ELSE [c EXCEPT !.stk = Pop(@), !.sig = Throw(Err(c.sig.v.message))]

\* AuthContext.refreshUser, lines 154-157, up to its await
CallRefreshUser(c) ==
    IF c.at # Null
    THEN CallRequest([c EXCEPT !.stk = @ \o << Frame("AuthContext.refreshUser", "await",
                                                     Req("", Null)),
                                               Frame("getCurrentUser", "await", Req("", Null)) >>],
                     Req(EpMe, Null))
    ELSE [c EXCEPT !.sig = Ret(Null)]

\* AuthContext.refreshUser, lines 157-164: getCurrentUser() has returned
RefreshUserOnReturn(c) ==
    [c EXCEPT !.ctx.user = IF c.sig.k = "ret" /\ c.sig.v # Null THEN c.sig.v ELSE @,
              !.stk = Pop(@),
              !.sig = Ret(Null)]

\* AuthProvider is mounted: initializeAuth, lines 49-55, up to its await
CallInitializeAuth(c) ==
    IF c.at # Null
    THEN CallRequest([c EXCEPT !.ctx = [user |-> Null, loading |-> TRUE, error |-> Null],
                               !.stk = @ \o << Frame("AuthContext.initializeAuth", "me",
                                                     Req("", Null)),
                                               Frame("getCurrentUser", "await", Req("", Null)) >>],
                     Req(EpMe, Null))
    ELSE [c EXCEPT !.ctx = [user |-> Null, loading |-> FALSE, error |-> Null],
                   !.sig = Ret(Null)]

\* initializeAuth, lines 55-75: getCurrentUser() or logout() has returned or thrown
InitializeAuthOnReturn(c) ==
    LET f == Top(c.stk)
        storedUser == getCurrentUserFromStorage(c.ls)
        end(user) == [c EXCEPT !.ctx.user = user, !.ctx.loading = FALSE,
                               !.stk = Pop(@), !.sig = Ret(Null)]
        logout == CallLogout([c EXCEPT !.stk = SetTopPc(@, "logout")])
    IN  IF f.pc = "logout" THEN end(c.ctx.user)
        ELSE IF c.sig.k = "throw" THEN logout
        ELSE IF c.sig.v # Null THEN end(c.sig.v)
        ELSE IF storedUser # Null THEN end(storedUser)
        ELSE logout

\* the frame on top of the stack takes what its callee returned or threw
Resume(c) ==
    LET f == Top(c.stk) IN
    CASE f.fn = "request" /\ f.pc = "fetch1"     -> RequestOnResponse(c)
      [] f.fn = "request" /\ f.pc = "refreshing" -> RequestOnRefreshed(c)
      [] f.fn = "request" /\ f.pc = "fetch2"     -> RequestOnRetry(c)
      [] f.fn = "login"                          -> LoginOnResponse(c)
      [] f.fn = "refreshAccessToken"             -> RefreshOnResponse(c)
      [] f.fn = "logout"                         -> LogoutOnResponse(c)
      [] f.fn = "getCurrentUser"                 -> GetCurrentUserOnResponse(c)
      [] f.fn = "AuthContext.logout"             -> CtxLogoutOnReturn(c)
      [] f.fn = "AuthContext.login"              -> CtxLoginOnReturn(c)
      [] f.fn = "axios"                          -> ServiceOnResponse(c)
      [] f.fn = "AuthContext.initializeAuth"     -> InitializeAuthOnReturn(c)
      [] f.fn = "AuthContext.refreshUser"        -> RefreshUserOnReturn(c)
      [] f.fn = "signup"                         -> PassOn(c)
      [] f.fn = "AuthContext.signup"             -> CtxSignupOnReturn(c)
      [] f.fn = "validateResetToken"             -> PassOn(c)
      [] f.fn = "resetPassword"                  -> PassOn(c)
      [] f.fn = "ResetPassword.validateToken"    -> ValidateTokenOnReturn(c)
      [] f.fn = "ResetPassword.handleSubmit"     -> HandleSubmitOnReturn(c)

\* run to the next await, or to the end of the call
RECURSIVE Run(_)
Run(c) ==
    IF c.sig.k = "wait" \/ c.stk = << >> THEN c ELSE Run(Resume(c))

-----------------------------------------------------------------------------
(* The server on its own: API calls answered one at a time *)

\* the sample users of the installation
SampleUsers ==
    [e \in {AdminEmail, GuestEmail} |->
        IF e = AdminEmail THEN UserRow(AdminPass, "admin", TRUE)
                          ELSE UserRow(AdminPass, "guest", FALSE)]

\* a table with no rows
EmptyTable == [h \in {} |-> Null]

NoCall == [req |-> Req("", Null), resp |-> Resp(0, FALSE, "")]

InitServer ==
    /\ users = SampleUsers
    /\ refreshTokens = EmptyTable
    /\ resetTokens = EmptyTable
    /\ nextRT = 1
    /\ nextPT = 1
    /\ now = 0
    /\ nTicks = 0
    /\ storeUp = TRUE
    /\ nCalls = 0
    /\ last = NoCall
    /\ completedRevokes = {}
    /\ revokedByReset = {}

\* a call in progress: the method called, its stack, and the refresh calls and
\* retries it has sent
Task(fn, c) == [fn |-> fn, stk |-> c.stk, nRefresh |-> c.nRefresh, nRetry |-> c.nRetry]

IdleTask == [fn |-> "", stk |-> << >>, nRefresh |-> 0, nRetry |-> 0]

\* a call that has ended: what it returned or threw
Done(fn, c) == [fn |-> fn, res |-> c.sig, nRefresh |-> c.nRefresh, nRetry |-> c.nRetry]

NoneDone == [fn |-> "", res |-> Wait, nRefresh |-> 0, nRetry |-> 0]

\* the ResetPassword component before it is mounted
NoPage ==
    [mounted |-> FALSE, token |-> Null, validatingToken |-> TRUE, tokenValid |-> FALSE,
     error |-> "", success |-> "", loading |-> FALSE]

InitClientIdle ==
    /\ accessToken = Null
    /\ refreshToken = Null
    /\ localStorage = [access_token |-> Null, refresh_token |-> Null, user |-> Null]
    /\ ctx = [user |-> Null, loading |-> FALSE, error |-> Null]
    /\ page = NoPage
    /\ tasks = [t \in 1..MaxTasks |-> IdleTask]
    /\ done = NoneDone
    /\ roleCheck = Null
    /\ formCheck = Null

\* raw refresh-token values a caller may present: 0 was never issued
RawRefreshTokens == 0..MaxRefreshTokens
RawResetTokens == 0..MaxResetTokens

\* the refresh tokens issued so far to a user
TokensOf(db, email) ==
    {raw \in 1..MaxRefreshTokens + 1 :
        /\ TokenHash(raw) \in DOMAIN db.refreshTokens
        /\ db.refreshTokens[TokenHash(raw)].user = email}

\* what an observer of the API records when a call is answered
Observe(req, resp) ==
    /\ completedRevokes' =
          IF req.ep = EpLogout /\ req.refresh_token.k = "rt" /\ resp.success
          THEN completedRevokes \cup {req.refresh_token.raw}
          ELSE completedRevokes
    /\ revokedByReset' =
          IF req.ep = EpReset /\ resp.success
          THEN revokedByReset \cup
               TokensOf(Db, resetTokens[TokenHash(req.token)].user)
          ELSE revokedByReset

\* one API call, answered in one transaction
Answer(req) ==
    /\ nCalls < MaxCalls
    /\ CanServe(req)
    /\ LET o == Handle(Db, req, now, storeUp) IN
          /\ Commit(o.db)
          /\ nCalls' = nCalls + 1
          /\ last' = [req |-> req, resp |-> o.resp]
          /\ Observe(req, o.resp)
    /\ UNCHANGED <<clockVars, clientVars, taskVars, checkVars>>

ApiLogin ==
    \E e \in Emails, pw \in {AdminPass, NewPass} :
        Answer([Req(EpLogin, Null) EXCEPT !.email = e, !.password = pw])

ApiRefresh ==
    \E raw \in RawRefreshTokens :
        Answer([Req(EpRefresh, Null) EXCEPT !.refresh_token = RT(raw)])

ApiLogout ==
    \E tok \in {RT(raw) : raw \in RawRefreshTokens} \cup {Null} :
        Answer([Req(EpLogout, Null) EXCEPT !.refresh_token = tok])

ApiRequestReset ==
    \E e \in Emails :
        Answer([Req(EpRequestReset, Null) EXCEPT !.email = e])

ApiValidate ==
    \E raw \in RawResetTokens :
        Answer([Req(EpValidate, Null) EXCEPT !.token = raw])

ApiReset ==
    \E raw \in RawResetTokens, pw \in {NewPass, WeakPass} :
        Answer([Req(EpReset, Null) EXCEPT !.token = raw, !.password = pw])

\* the clock advances by an access-token or a refresh-token lifetime
Tick ==
    /\ nTicks < MaxTicks
    /\ \E d \in {AccessTTL, RefreshTTL} : now' = now + d
    /\ nTicks' = nTicks + 1
    /\ storeUp' = storeUp
    /\ UNCHANGED <<serverVars, apiVars, clientVars, taskVars, ghostVars, checkVars>>

\* an administrator deactivates an account
Deactivate ==
    /\ \E e \in DOMAIN users :
          /\ users[e].is_active
          /\ users' = [users EXCEPT ![e].is_active = FALSE]
    /\ UNCHANGED <<refreshTokens, resetTokens, nextRT, nextPT, clockVars, apiVars,
                   clientVars, taskVars, ghostVars, checkVars>>

\* the periodic sweep: expired rows are garbage-collected
Sweep ==
    /\ \E h \in DOMAIN refreshTokens : refreshTokens[h].expires_at <= now
    /\ refreshTokens' = [h \in {g \in DOMAIN refreshTokens :
                                   now < refreshTokens[g].expires_at} |-> refreshTokens[h]]
    /\ resetTokens' = [h \in {g \in DOMAIN resetTokens :
                                 now < resetTokens[g].expires_at} |-> resetTokens[h]]
    /\ UNCHANGED <<users, nextRT, nextPT, clockVars, apiVars, clientVars, taskVars,
                   ghostVars, checkVars>>

\* the backend initialised, the client constructed with an empty localStorage
Init == InitServer /\ InitClientIdle

NextServer ==
    \/ ApiLogin
    \/ ApiRefresh
    \/ ApiLogout
    \/ ApiRequestReset
    \/ ApiValidate
    \/ ApiReset
    \/ Tick
    \/ Deactivate
    \/ Sweep

SpecServer == Init /\ [][NextServer]_vars


-----------------------------------------------------------------------------
(* The session client and the server together *)

Free(t) == tasks[t].stk = << >>
Suspended(t) == ~Free(t) /\ Top(tasks[t].stk).fn = "fetch"

\* the configuration in which call t runs on
Cfg(t, stk, sig) ==
    [stk |-> stk, sig |-> sig, at |-> accessToken, rt |-> refreshToken,
     ls |-> localStorage, ctx |-> ctx, page |-> page, spawn |-> << >>,
     nRefresh |-> tasks[t].nRefresh, nRetry |-> tasks[t].nRetry]

\* the free slots other than t, and the place of u among them
FreeBut(t) == {u \in 1..MaxTasks : u # t /\ Free(u)}
PlaceIn(S, u) == Cardinality({v \in S : v <= u})

\* call t has run to configuration c: the client's state after it
Install(t, fn, c) ==
    /\ Len(c.spawn) <= Cardinality(FreeBut(t))
    /\ accessToken' = c.at
    /\ refreshToken' = c.rt
    /\ localStorage' = c.ls
    /\ ctx' = c.ctx
    /\ page' = c.page
    /\ tasks' = [u \in 1..MaxTasks |->
          IF u = t THEN (IF c.stk = << >> THEN IdleTask ELSE Task(fn, c))
          ELSE IF u \in FreeBut(t) /\ PlaceIn(FreeBut(t), u) <= Len(c.spawn)
          THEN [fn |-> "logout", stk |-> c.spawn[PlaceIn(FreeBut(t), u)],
                nRefresh |-> 0, nRetry |-> 0]
          ELSE tasks[u]]
    /\ done' = IF c.stk = << >> THEN Done(fn, c) ELSE done

\* the user interface starts a call when its previous call has ended; the calls
\* the client starts without await run beside it, in the other slots
UserSlot(t) == t = 1 /\ Free(t)

Fresh(t, stk) == [Cfg(t, stk, Wait) EXCEPT !.nRefresh = 0, !.nRetry = 0]

\* authService.login(email, password)
StartLogin ==
    \E t \in 1..MaxTasks, pw \in {AdminPass, NewPass} :
        /\ UserSlot(t)
        /\ Install(t, "login",
              CallRequest(Fresh(t, << Frame("login", "await", Req("", Null)) >>),
                          [Req(EpLogin, Null) EXCEPT !.email = AdminEmail, !.password = pw]))
        /\ UNCHANGED <<serverVars, clockVars, apiVars, ghostVars, checkVars>>

\* authService.getCurrentUser(): a call to a protected endpoint
StartGetCurrentUser ==
    \E t \in 1..MaxTasks :
        /\ UserSlot(t)
        /\ Install(t, "getCurrentUser",
              CallRequest(Fresh(t, << Frame("getCurrentUser", "await", Req("", Null)) >>),
                          Req(EpMe, Null)))
        /\ UNCHANGED <<serverVars, clockVars, apiVars, ghostVars, checkVars>>

\* authService.refreshAccessToken()
StartRefresh ==
    \E t \in 1..MaxTasks :
        /\ UserSlot(t)
        /\ Install(t, "refreshAccessToken", Run(CallRefreshAccessToken(Fresh(t, << >>))))
        /\ UNCHANGED <<serverVars, clockVars, apiVars, ghostVars, checkVars>>

\* authService.logout()
StartLogout ==
    \E t \in 1..MaxTasks :
        /\ UserSlot(t)
        /\ Install(t, "logout", Run(CallLogout(Fresh(t, << >>))))
        /\ UNCHANGED <<serverVars, clockVars, apiVars, ghostVars, checkVars>>

\* the server answers the request of a suspended call
ServerHandle ==
    \E t \in 1..MaxTasks :
        /\ Suspended(t)
        /\ Top(tasks[t].stk).pc = "sent"
        /\ nCalls < MaxCalls
        /\ CanServe(Top(tasks[t].stk).req)
        /\ LET o == Handle(Db, Top(tasks[t].stk).req, now, storeUp) IN
              /\ Commit(o.db)
              /\ nCalls' = nCalls + 1
              /\ tasks' = [tasks EXCEPT ![t].stk[Len(tasks[t].stk)] =
                              [@ EXCEPT !.pc = "answered", !.resp = o.resp]]
        /\ UNCHANGED <<clockVars, last, clientVars, done, ghostVars, checkVars>>

\* the response arrives: fetch resolves and the call runs on
Deliver ==
    \E t \in 1..MaxTasks :
        /\ Suspended(t)
        /\ Top(tasks[t].stk).pc = "answered"
        /\ Install(t, tasks[t].fn,
                   Run(Cfg(t, Pop(tasks[t].stk), Ret(Top(tasks[t].stk).resp))))
        /\ Observe(Top(tasks[t].stk).req, Top(tasks[t].stk).resp)
        /\ UNCHANGED <<serverVars, clockVars, apiVars, checkVars>>

\* the network fails: fetch rejects, whether or not the server saw the request
NetFail ==
    \E t \in 1..MaxTasks :
        /\ Suspended(t)
        /\ Install(t, tasks[t].fn,
                   Run(Cfg(t, Pop(tasks[t].stk), Throw(Err("Failed to fetch")))))
        /\ UNCHANGED <<serverVars, clockVars, apiVars, ghostVars, checkVars>>

Next ==
    \/ StartLogin
    \/ StartGetCurrentUser
    \/ StartRefresh
    \/ StartLogout
    \/ ServerHandle
    \/ Deliver
    \/ NetFail
    \/ Tick

Spec == Init /\ [][Next]_vars

-----------------------------------------------------------------------------
(* The derived predicates: hasRole, isAdmin, isAnalyst *)

\* roleHierarchy[role] || 0, lines 668-675
roleHierarchy(role) ==
    CASE role = "guest"   -> 1
      [] role = "analyst" -> 2
      [] role = "admin"   -> 3
      [] OTHER            -> 0

\* a hasRole that asks for a strictly higher role
hasRoleStrict(ls, requiredRole) ==
    LET user == getCurrentUserFromStorage(ls) IN
    IF user = Null THEN FALSE
    ELSE roleHierarchy(user.role) > roleHierarchy(requiredRole)

\* hasRole(requiredRole), lines 664-678
hasRole(ls, requiredRole) ==
    LET user == getCurrentUserFromStorage(ls) IN
    IF user = Null THEN FALSE
    ELSE roleHierarchy(user.role) >= roleHierarchy(requiredRole)

isAdmin(ls) == hasRole(ls, "admin")
isAnalyst(ls) == hasRole(ls, "analyst")

\* role strings: the known ones, a differently cased one, unknown ones
RoleStrings == KnownRoles \cup {"Admin", "superuser", "viewer"}

\* what localStorage may hold under 'user': nothing, text that is no JSON, or a
\* stored user
StoredUsers ==
    {Null, [k |-> "text"]} \cup
    {JSONstringify(UserJson(e, UserRow(AdminPass, r, TRUE))) :
        e \in {AdminEmail, GuestEmail}, r \in RoleStrings}

InitRole == InitServer /\ InitClientIdle

RoleCall(fn, required, result) ==
    [k |-> "check", fn |-> fn, required |-> required, stored |-> localStorage.user,
     result |-> result]

\* localStorage.setItem('user', ...) / removeItem('user')
StoreUser ==
    /\ \E u \in StoredUsers : localStorage' = [localStorage EXCEPT !.user = u]
    /\ roleCheck' = Null
    /\ UNCHANGED <<serverVars, clockVars, apiVars, accessToken, refreshToken, ctx, page,
                   taskVars, ghostVars, formCheck>>

CheckHasRole ==
    /\ \E r \in RoleStrings : roleCheck' = RoleCall("hasRole", r, hasRole(localStorage, r))
    /\ UNCHANGED <<serverVars, clockVars, apiVars, clientVars, taskVars, ghostVars, formCheck>>

CheckIsAdmin ==
    /\ roleCheck' = RoleCall("isAdmin", "admin", isAdmin(localStorage))
    /\ UNCHANGED <<serverVars, clockVars, apiVars, clientVars, taskVars, ghostVars, formCheck>>

CheckIsAnalyst ==
    /\ roleCheck' = RoleCall("isAnalyst", "analyst", isAnalyst(localStorage))
    /\ UNCHANGED <<serverVars, clockVars, apiVars, clientVars, taskVars, ghostVars, formCheck>>

\* the server authorizes the stored identity against a required role
CheckAuthorize ==
    /\ getCurrentUserFromStorage(localStorage) # Null
    /\ \E r \in KnownRoles :
          roleCheck' = RoleCall("authorize", r,
                           Authorize(getCurrentUserFromStorage(localStorage).role, r))
    /\ UNCHANGED <<serverVars, clockVars, apiVars, clientVars, taskVars, ghostVars, formCheck>>

NextRole ==
    \/ StoreUser
    \/ CheckHasRole
    \/ CheckAuthorize
    \/ CheckIsAdmin
    \/ CheckIsAnalyst

SpecRole == InitRole /\ [][NextRole]_vars

-----------------------------------------------------------------------------
(* The API under concurrent callers: several devices send login, refresh    *)
(* and logout requests that are in flight at the same time                  *)

FirstFree(t) == Free(t) /\ \A u \in 1..t - 1 : ~Free(u)

\* a device sends a request and awaits the answer
Send(t, req) ==
    /\ FirstFree(t)
    /\ Install(t, "fetch", Fresh(t, << Frame("fetch", "sent", req) >>))
    /\ UNCHANGED <<serverVars, clockVars, apiVars, ghostVars, checkVars>>

\* the refresh tokens the devices hold: those some login has issued
HeldTokens == {raw \in RawRefreshTokens : raw < nextRT}

\* the device under study logs in once; what follows is about the token it gets
SendLogin ==
    \E t \in 1..MaxTasks :
        /\ nextRT = 1
        /\ \A u \in 1..MaxTasks : Free(u)
        /\ Send(t, [Req(EpLogin, Null) EXCEPT !.email = AdminEmail,
                                              !.password = AdminPass])

SendRefresh ==
    \E t \in 1..MaxTasks, raw \in HeldTokens :
        Send(t, [Req(EpRefresh, Null) EXCEPT !.refresh_token = RT(raw)])

SendLogout ==
    \E t \in 1..MaxTasks, raw \in HeldTokens :
        Send(t, [Req(EpLogout, Null) EXCEPT !.refresh_token = RT(raw)])

\* the clock advances by a refresh-token lifetime
Expire == Tick /\ now' = now + RefreshTTL

NextNet ==
    \/ SendLogin
    \/ SendRefresh
    \/ SendLogout
    \/ ServerHandle
    \/ Deliver
    \/ NetFail
    \/ Expire
    \/ Sweep

SpecNet == Init /\ [][NextNet]_vars

-----------------------------------------------------------------------------
(* The session client while an administrator changes roles *)

\* an administrator changes the role of an account that has a session
ChangeRole ==
    /\ \E e \in DOMAIN users, r \in KnownRoles :
          /\ users[e].role # r
          /\ TokensOf(Db, e) # {}
          /\ users' = [users EXCEPT ![e].role = r]
    /\ UNCHANGED <<refreshTokens, resetTokens, nextRT, nextPT, clockVars, apiVars,
                   clientVars, taskVars, ghostVars, checkVars>>

NextRoleChange ==
    \/ StartLogin
    \/ StartRefresh
    \/ ServerHandle
    \/ Deliver
    \/ NetFail
    \/ ChangeRole

SpecRoleChange == Init /\ [][NextRoleChange]_vars

-----------------------------------------------------------------------------
(* Logging in and out through the AuthProvider, with a server that may fail *)

\* AuthContext.login(email, password)
StartCtxLogin ==
    \E t \in 1..MaxTasks, pw \in {AdminPass, NewPass} :
        /\ UserSlot(t)
        /\ Install(t, "AuthContext.login",
              CallCtxLogin(Fresh(t, << >>),
                           [Req(EpLogin, Null) EXCEPT !.email = AdminEmail, !.password = pw]))
        /\ UNCHANGED <<serverVars, clockVars, apiVars, ghostVars, checkVars>>

\* AuthContext.logout()
StartCtxLogout ==
    \E t \in 1..MaxTasks :
        /\ UserSlot(t)
        /\ Install(t, "AuthContext.logout", Run(CallCtxLogout(Fresh(t, << >>))))
        /\ UNCHANGED <<serverVars, clockVars, apiVars, ghostVars, checkVars>>

\* the server fails on a request: it answers 500 and the store is as it was
ServerFault ==
    \E t \in 1..MaxTasks :
        /\ Suspended(t)
        /\ Top(tasks[t].stk).pc = "sent"
        /\ nCalls < MaxCalls
        /\ nCalls' = nCalls + 1
        /\ tasks' = [tasks EXCEPT ![t].stk[Len(tasks[t].stk)] =
                        [@ EXCEPT !.pc = "answered", !.resp = ServerError]]
        /\ UNCHANGED <<serverVars, clockVars, last, clientVars, done, ghostVars, checkVars>>

NextLogout ==
    \/ StartCtxLogin
    \/ StartLogout
    \/ StartCtxLogout
    \/ ServerHandle
    \/ ServerFault
    \/ Deliver
    \/ NetFail

SpecLogout == Init /\ [][NextLogout]_vars

-----------------------------------------------------------------------------
(* The validateForm functions of the signup and the reset-password forms *)

\* a string of n characters of one class
Rep(c, n) == [i \in 1..n |-> c]

\* the passwords typed into the forms: none, short ones, ones of 8 characters
\* and more with some or all of the character classes
FormPasswords ==
    {<< >>, WeakPass, AdminPass, NewPass,
     Rep("L", 8), Rep("U", 8), Rep("D", 8),
     Rep("L", 7) \o <<"U">>, Rep("L", 7) \o <<"D">>, Rep("U", 7) \o <<"D">>,
     Rep("L", 6) \o <<"U", "D">>, Rep("L", 5) \o <<"U", "D">>}

NameInputs == {"", " ", "Ann"}
EmailInputs == {"", "ann", "ann@example.com"}

\* String.prototype.trim on the name inputs
Trim(str) == IF str = " " THEN "" ELSE str

\* /\S+@\S+\.\S+/.test(email) on the email inputs
LooksLikeEmail(email) == email = "ann@example.com"

\* Signup.validateForm, Signup.tsx lines 49-80: the fields with an error
SignupErrors(f) ==
    (IF Trim(f.firstName) = "" THEN {"firstName"} ELSE {}) \cup
    (IF Trim(f.lastName) = "" THEN {"lastName"} ELSE {}) \cup
    (IF Trim(f.email) = "" \/ ~LooksLikeEmail(f.email) THEN {"email"} ELSE {}) \cup
    (IF f.password = << >> \/ Len(f.password) < 8 THEN {"password"} ELSE {}) \cup
    (IF f.confirmPassword = << >> \/ f.password # f.confirmPassword
     THEN {"confirmPassword"} ELSE {})

\* ResetPassword.validateForm, lines 86-111: the fields with an error
ResetErrors(f) ==
    (IF \/ f.newPassword = << >>
        \/ Len(f.newPassword) < 8
        \/ ~HasClass(f.newPassword, "L")
        \/ ~HasClass(f.newPassword, "U")
        \/ ~HasClass(f.newPassword, "D")
     THEN {"newPassword"} ELSE {}) \cup
    (IF f.confirmPassword = << >> \/ f.newPassword # f.confirmPassword
     THEN {"confirmPassword"} ELSE {})

FormCall(form, f, password, errors, pwField) ==
    [k |-> "check", form |-> form, fields |-> f, password |-> password, errors |-> errors,
     passwordError |-> pwField \in errors, accepted |-> errors = {}]

\* the signup form is submitted
SignupValidateForm ==
    /\ \E fn \in NameInputs, ln \in {"", "Lee"}, e \in EmailInputs,
          pw \in FormPasswords, same \in BOOLEAN :
          LET f == [firstName |-> fn, lastName |-> ln, email |-> e, password |-> pw,
                    confirmPassword |-> IF same THEN pw ELSE Rep("L", 9)]
          IN  formCheck' = FormCall("signup", f, pw, SignupErrors(f), "password")
    /\ UNCHANGED <<serverVars, clockVars, apiVars, clientVars, taskVars, ghostVars, roleCheck>>

\* the reset-password form is submitted
ResetValidateForm ==
    /\ \E pw \in FormPasswords, same \in BOOLEAN :
          LET f == [newPassword |-> pw,
                    confirmPassword |-> IF same THEN pw ELSE Rep("L", 9)]
          IN  formCheck' = FormCall("reset", f, pw, ResetErrors(f), "newPassword")
    /\ UNCHANGED <<serverVars, clockVars, apiVars, clientVars, taskVars, ghostVars, roleCheck>>

NextForms ==
    \/ SignupValidateForm
    \/ ResetValidateForm

SpecForms == Init /\ [][NextForms]_vars

-----------------------------------------------------------------------------
(* Login and refresh against a server that may never answer *)

NextPending ==
    \/ StartLogin
    \/ StartRefresh
    \/ ServerHandle
    \/ Deliver
    \/ NetFail

\* a response the server has sent does arrive; nothing makes the server answer,
\* and nothing makes fetch reject: the client sets no timeout on its requests
SpecPending == Init /\ [][NextPending]_vars /\ WF_vars(Deliver)

-----------------------------------------------------------------------------
(* The session client and a server whose store may be unreadable *)

\* the store stops answering reads
StoreFails ==
    /\ storeUp
    /\ storeUp' = FALSE
    /\ UNCHANGED <<serverVars, now, nTicks, apiVars, clientVars, taskVars, ghostVars,
                   checkVars>>

\* the store answers again
StoreRecovers ==
    /\ ~storeUp
    /\ storeUp' = TRUE
    /\ UNCHANGED <<serverVars, now, nTicks, apiVars, clientVars, taskVars, ghostVars,
                   checkVars>>

NextStore ==
    \/ StartLogin
    \/ StartRefresh
    \/ StartLogout
    \/ ServerHandle
    \/ Deliver
    \/ NetFail
    \/ StoreFails
    \/ StoreRecovers

SpecStore == Init /\ [][NextStore]_vars

-----------------------------------------------------------------------------
(* Signing up and logging in *)

\* the passwords given at signup: of the policy, with and without a special
\* character, and not of the policy
SignupPasswords == {NewPass, Rep("L", 6) \o <<"U", "D">>, Rep("L", 8), WeakPass}

\* AuthContext.signup(email, password, firstName, lastName)
StartCtxSignup ==
    \E t \in 1..MaxTasks, e \in {NobodyEmail, AdminEmail}, pw \in SignupPasswords :
        /\ UserSlot(t)
        /\ Install(t, "AuthContext.signup", CallCtxSignup(Fresh(t, << >>), e, pw))
        /\ UNCHANGED <<serverVars, clockVars, apiVars, ghostVars, checkVars>>

\* AuthContext.login(email, password) with the credentials given at signup
StartCtxLoginNew ==
    \E t \in 1..MaxTasks, pw \in SignupPasswords :
        /\ UserSlot(t)
        /\ Install(t, "AuthContext.login",
              CallCtxLogin(Fresh(t, << >>),
                           [Req(EpLogin, Null) EXCEPT !.email = NobodyEmail, !.password = pw]))
        /\ UNCHANGED <<serverVars, clockVars, apiVars, ghostVars, checkVars>>

\* a signup sent to the API by another client, with any role or none
ApiSignup ==
    \E pw \in SignupPasswords, r \in KnownRoles \cup {"", "root"} :
        Answer(SignupRequest(NobodyEmail, pw, r))

NextSignup ==
    \/ StartCtxSignup
    \/ StartCtxLoginNew
    \/ ApiSignup
    \/ ServerHandle
    \/ Deliver
    \/ NetFail

SpecSignup == Init /\ [][NextSignup]_vars

-----------------------------------------------------------------------------
(* The service clients *)

\* analyticsService, collectionService or paymentService makes a request
StartService ==
    \E t \in 1..MaxTasks :
        /\ UserSlot(t)
        /\ Install(t, "service", Run(CallService(Fresh(t, << >>))))
        /\ UNCHANGED <<serverVars, clockVars, apiVars, ghostVars, checkVars>>

NextService ==
    \/ StartLogin
    \/ StartService
    \/ StartGetCurrentUser
    \/ ServerHandle
    \/ Deliver
    \/ NetFail
    \/ Tick

SpecService == Init /\ [][NextService]_vars

-----------------------------------------------------------------------------
(* Logout against a server that may answer 401 to anything *)

\* the server answers 401 to a request, whatever the request is
ServerUnauthorized ==
    \E t \in 1..MaxTasks :
        /\ Suspended(t)
        /\ Top(tasks[t].stk).pc = "sent"
        /\ nCalls < MaxCalls
        /\ nCalls' = nCalls + 1
        /\ tasks' = [tasks EXCEPT ![t].stk[Len(tasks[t].stk)] =
                        [@ EXCEPT !.pc = "answered", !.resp = AuthFailure]]
        /\ UNCHANGED <<serverVars, clockVars, last, clientVars, done, ghostVars, checkVars>>

NextAnyServer ==
    \/ StartLogin
    \/ StartLogout
    \/ ServerHandle
    \/ ServerUnauthorized
    \/ ServerFault
    \/ Deliver
    \/ NetFail

SpecAnyServer == Init /\ [][NextAnyServer]_vars

-----------------------------------------------------------------------------
(* Calls made while other calls are in flight *)

\* isAuthenticated(), lines 647-649
isAuthenticated(at) == at # Null

\* a component calls refreshAccessToken() while other calls are in flight
RefreshBeside ==
    \E t \in 1..MaxTasks :
        /\ Free(t)
        /\ Install(t, "refreshAccessToken", Run(CallRefreshAccessToken(Fresh(t, << >>))))
        /\ UNCHANGED <<serverVars, clockVars, apiVars, ghostVars, checkVars>>

\* a component calls getCurrentUser() while other calls are in flight
GetCurrentUserBeside ==
    \E t \in 1..MaxTasks :
        /\ Free(t)
        /\ Install(t, "getCurrentUser",
              CallRequest(Fresh(t, << Frame("getCurrentUser", "await", Req("", Null)) >>),
                          Req(EpMe, Null)))
        /\ UNCHANGED <<serverVars, clockVars, apiVars, ghostVars, checkVars>>

\* the user logs out while other calls are in flight
LogoutBeside ==
    \E t \in 1..MaxTasks :
        /\ Free(t)
        /\ Install(t, "logout", Run(CallLogout(Fresh(t, << >>))))
        /\ UNCHANGED <<serverVars, clockVars, apiVars, ghostVars, checkVars>>

NextBeside ==
    \/ StartLogin
    \/ RefreshBeside
    \/ GetCurrentUserBeside
    \/ LogoutBeside
    \/ ServerHandle
    \/ Deliver
    \/ NetFail

SpecBeside == Init /\ [][NextBeside]_vars

-----------------------------------------------------------------------------
(* The AuthProvider's user and the stored user *)

\* AuthContext.refreshUser()
StartRefreshUser ==
    \E t \in 1..MaxTasks :
        /\ UserSlot(t)
        /\ Install(t, "AuthContext.refreshUser", Run(CallRefreshUser(Fresh(t, << >>))))
        /\ UNCHANGED <<serverVars, clockVars, apiVars, ghostVars, checkVars>>

\* AdminRoute, part_000 lines 53-69: the children are rendered
AdminRouteAdmits(at, cx) ==
    /\ isAuthenticated(at) /\ cx.user # Null
    /\ cx.user.role = "admin"

NextGuard ==
    \/ StartCtxLogin
    \/ StartRefresh
    \/ StartRefreshUser
    \/ StartCtxLogout
    \/ ChangeRole
    \/ ServerHandle
    \/ Deliver
    \/ NetFail

SpecGuard == Init /\ [][NextGuard]_vars

-----------------------------------------------------------------------------
(* Start-up with what an earlier session left in localStorage *)

\* the page is loaded again: authService is constructed (loadTokensFromStorage,
\* lines 478-481) and AuthProvider is mounted and runs initializeAuth
Reload ==
    /\ \A t \in 1..MaxTasks : Free(t)
    /\ Install(1, "AuthContext.initializeAuth",
               Run(CallInitializeAuth([Fresh(1, << >>) EXCEPT
                                          !.at = localStorage.access_token,
                                          !.rt = localStorage.refresh_token])))
    /\ UNCHANGED <<serverVars, clockVars, apiVars, ghostVars, checkVars>>

NextStartup ==
    \/ StartLogin
    \/ StartLogout
    \/ Reload
    \/ ServerHandle
    \/ Deliver
    \/ NetFail
    \/ Tick

SpecStartup == Init /\ [][NextStartup]_vars

-----------------------------------------------------------------------------
(* The reset-password page *)

\* the page /reset-password?token=... is opened: with a token a reset request
\* issued, with a token nobody issued, or with no token
MountPage ==
    \E t \in 1..MaxTasks, raw \in RawResetTokens, given \in BOOLEAN, defined \in BOOLEAN :
        /\ UserSlot(t)
        /\ Install(t, "ResetPassword.validateToken",
                   Run(MountResetPassword(Fresh(t, << >>),
                                          IF given THEN PT(raw) ELSE Null, defined)))
        /\ UNCHANGED <<serverVars, clockVars, apiVars, ghostVars, checkVars>>

\* the new-password form is on the screen and is submitted
SubmitReset ==
    \E t \in 1..MaxTasks, pw \in FormPasswords, same \in BOOLEAN :
        LET f == [newPassword |-> pw,
                  confirmPassword |-> IF same THEN pw ELSE Rep("L", 9)]
        IN  /\ UserSlot(t)
            /\ Screen(page) = "form"
            /\ Install(t, "ResetPassword.handleSubmit",
                       Run(HandleSubmit(Fresh(t, << >>), f, ResetErrors(f))))
            /\ UNCHANGED <<serverVars, clockVars, apiVars, ghostVars, checkVars>>

NextResetPage ==
    \/ ApiRequestReset
    \/ MountPage
    \/ SubmitReset
    \/ ServerHandle
    \/ ServerFault
    \/ Deliver
    \/ NetFail
    \/ Tick

SpecResetPage == Init /\ [][NextResetPage]_vars

-----------------------------------------------------------------------------
(* Properties of the server *)

\* this step answers an API call
Answered == nCalls' = nCalls + 1

Row(raw) == refreshTokens[TokenHash(raw)]
Issued(raw) == TokenHash(raw) \in DOMAIN refreshTokens

PtRow(raw) == resetTokens[TokenHash(raw)]
PtKnown(raw) == TokenHash(raw) \in DOMAIN resetTokens

\* C5: a reset token that has been consumed by a successful resetPassword is
\* refused by every later resetPassword and validateResetToken, expired or not,
\* with the very answer an expired (or unknown) token gets.
C5_ResetTokenSingleUse ==
    [][(/\ Answered
        /\ last'.req.ep \in {EpReset, EpValidate}
        /\ \/ ~PtKnown(last'.req.token)
           \/ PtRow(last'.req.token).used_at # -1
           \/ PtRow(last'.req.token).expires_at <= now)
       => (last'.resp = InvalidResetToken /\ UNCHANGED serverVars)]_vars

\* C5 witness: a resetPassword or validateResetToken was refused for a token that
\* is used and not yet expired.
C5_Witness ==
    /\ last.req.ep \in {EpReset, EpValidate}
    /\ last.resp = InvalidResetToken
    /\ PtKnown(last.req.token)
    /\ PtRow(last.req.token).used_at # -1
    /\ now < PtRow(last.req.token).expires_at

\* C6: a login adds one refresh token that is new and touches no other; a revoke
\* changes the revoked flag of the named token and nothing else; a refresh with a
\* token that is valid, of an active account, succeeds whatever happened to the
\* account's other tokens.
C6_IndependentTokens ==
    [][Answered =>
        /\ (last'.req.ep = EpLogin /\ last'.resp.success) =>
              /\ last'.resp.refresh_token = RT(nextRT)
              /\ ~Issued(nextRT)
              /\ DOMAIN refreshTokens' = DOMAIN refreshTokens \cup {TokenHash(nextRT)}
              /\ \A h \in DOMAIN refreshTokens : refreshTokens'[h] = refreshTokens[h]
        /\ last'.req.ep = EpLogout =>
              /\ last'.resp.success
              /\ DOMAIN refreshTokens' = DOMAIN refreshTokens
              /\ \A h \in DOMAIN refreshTokens :
                    IF last'.req.refresh_token = Null
                          \/ h # TokenHash(last'.req.refresh_token.raw)
                    THEN refreshTokens'[h] = refreshTokens[h]
                    ELSE refreshTokens'[h] = [refreshTokens[h] EXCEPT !.is_revoked = TRUE]
              /\ UNCHANGED <<users, resetTokens>>
        /\ (/\ last'.req.ep = EpRefresh
            /\ Issued(last'.req.refresh_token.raw)
            /\ ~Row(last'.req.refresh_token.raw).is_revoked
            /\ now < Row(last'.req.refresh_token.raw).expires_at
            /\ users[Row(last'.req.refresh_token.raw).user].is_active)
              => (last'.resp.success /\ last'.resp.access_token.k = "jwt")
      ]_vars

\* C6 witness: an account holds two refresh tokens, one revoked by a logout, and
\* a refresh with the other one has just succeeded.
C6_Witness ==
    /\ last.req.ep = EpRefresh
    /\ last.resp.success
    /\ \E other \in completedRevokes :
          /\ other # last.req.refresh_token.raw
          /\ Issued(other)
          /\ Row(other).is_revoked
          /\ Row(other).user = Row(last.req.refresh_token.raw).user

\* C9: request-password-reset gives the same answer for every email, and creates
\* a reset token exactly when the email is registered and the account active.
C9_ResetRequestUniform ==
    [][(Answered /\ last'.req.ep = EpRequestReset) =>
        /\ last'.resp = ResetRequested
        /\ IF last'.req.email \in DOMAIN users /\ users[last'.req.email].is_active
           THEN /\ DOMAIN resetTokens' = DOMAIN resetTokens \cup {TokenHash(nextPT)}
                /\ ~PtKnown(nextPT)
                /\ resetTokens'[TokenHash(nextPT)].user = last'.req.email
           ELSE resetTokens' = resetTokens
      ]_vars

\* C9 witness: a reset was requested for an email that is not registered, after
\* one for a registered email had created a token.
C9_Witness ==
    /\ last.req.ep = EpRequestReset
    /\ last.req.email \notin DOMAIN users
    /\ last.resp = ResetRequested
    /\ DOMAIN resetTokens # {}

-----------------------------------------------------------------------------
(* Properties of the role checks *)

\* C7: a role check compares ranks in guest(1) < analyst(2) < admin(3): for a
\* stored user with a role of that set and a required role of that set, hasRole,
\* isAdmin, isAnalyst and authorize answer true iff the rank of the user's role
\* is at least the rank of the required role; hasRole is false when no user is
\* stored.
C7_RoleTotalOrder ==
    roleCheck.k = "check" =>
        /\ roleCheck.stored = Null => ~roleCheck.result
        /\ (/\ roleCheck.stored.k = "json"
            /\ roleCheck.stored.v.role \in KnownRoles
            /\ roleCheck.required \in KnownRoles)
           => (roleCheck.result <=>
                  RoleLevel(roleCheck.stored.v.role) >= RoleLevel(roleCheck.required))
        /\ <<GUEST, ANALYST, ADMIN>> = <<1, 2, 3>>

\* C7 witness: a stored analyst has been checked against the role analyst, the
\* boundary of the comparison, and passed.
C7_Witness ==
    /\ roleCheck.k = "check"
    /\ roleCheck.fn = "hasRole"
    /\ roleCheck.stored.k = "json"
    /\ roleCheck.stored.v.role = "analyst"
    /\ roleCheck.required = "analyst"
    /\ roleCheck.result

-----------------------------------------------------------------------------
(* Properties of the session client *)

SessionExpired == Throw(Err("Session expired. Please login again."))

NoTokens == [access_token |-> Null, refresh_token |-> Null, user |-> Null]

\* the server answers the request of call t in this step
Handled(t) ==
    /\ Suspended(t)
    /\ Top(tasks[t].stk).pc = "sent"
    /\ nCalls' = nCalls + 1
    /\ tasks'[t] # tasks[t]

\* the fetch of call t settles in this step: its response arrives or it rejects
Settled(t) ==
    /\ Suspended(t)
    /\ nCalls' = nCalls
    /\ tasks'[t] # tasks[t]

\* calls whose own request is not the refresh request
OrdinaryCalls == {"login", "getCurrentUser", "logout"}

\* C1: one original request causes at most one refresh call and at most one
\* retry, also when the refresh call itself is answered 401.
C1_OneRefreshOneRetry ==
    /\ \A t \in 1..MaxTasks :
          tasks[t].fn \in OrdinaryCalls =>
              tasks[t].nRefresh <= 1 /\ tasks[t].nRetry <= 1
    /\ done.fn \in OrdinaryCalls => done.nRefresh <= 1 /\ done.nRetry <= 1

\* the refresh that request() awaits after a 401 is in flight on top of call t
RefreshInFlight(t) ==
    /\ Suspended(t)
    /\ Len(tasks[t].stk) >= 4
    /\ Top(tasks[t].stk).req.ep = EpRefresh
    /\ tasks[t].stk[Len(tasks[t].stk) - 3].fn = "request"
    /\ tasks[t].stk[Len(tasks[t].stk) - 3].pc = "refreshing"

\* the response on top of call t is a refresh that succeeded
RefreshSucceeds(t) ==
    /\ Top(tasks[t].stk).pc = "answered"
    /\ Top(tasks[t].stk).resp.success
    /\ Top(tasks[t].stk).resp.access_token # Null

\* C2: when the refresh after a 401 fails (rejected, answered without an access
\* token, or a network error), the call ends there with both tokens and the
\* stored user cleared from memory and from storage, and it sends no further
\* refresh and no retry.
C2_RefreshFailureForcesLogout ==
    [][\A t \in 1..MaxTasks :
          (RefreshInFlight(t) /\ ~RefreshSucceeds(t) /\ Settled(t)) =>
              /\ tasks'[t].stk = << >>
              /\ done'.nRefresh = tasks[t].nRefresh
              /\ done'.nRetry = tasks[t].nRetry
              /\ accessToken' = Null
              /\ refreshToken' = Null
              /\ localStorage' = NoTokens
      ]_vars

\* C8: a refreshAccessToken() whose refresh request the server has refused (the
\* one answer it gives for an expired, a revoked and a never-issued token)
\* returns false when that answer arrives, and leaves the client's state as it
\* was.
C8_RefusedRefreshReturnsFalse ==
    [][\A t \in 1..MaxTasks :
          (/\ tasks[t].fn = "refreshAccessToken"
           /\ Len(tasks[t].stk) = 3
           /\ Top(tasks[t].stk).pc = "answered"
           /\ Top(tasks[t].stk).req.ep = EpRefresh
           /\ Top(tasks[t].stk).resp = AuthFailure
           /\ Settled(t)) =>
              /\ tasks'[t].stk = << >>
              /\ done'.fn = "refreshAccessToken"
              /\ done'.res = Ret(Bool(FALSE))
              /\ UNCHANGED clientVars
      ]_vars

\* C10: session renewal end to end. A protected endpoint answers 200 exactly to
\* an unexpired access token of an active account and 401 otherwise, so 401
\* once the token has expired; a refresh with a valid refresh token of an
\* active account yields an access token that is not expired; and the retry
\* goes to the same endpoint carrying the access token the refresh delivered.
C10_SessionRenewal ==
    [][\A t \in 1..MaxTasks :
          /\ (Handled(t) /\ Top(tasks[t].stk).req.ep = EpMe) =>
                LET bearer == Top(tasks[t].stk).req.bearer
                    resp == Top(tasks'[t].stk).resp
                    good == /\ bearer.k = "jwt"
                            /\ now < bearer.exp
                            /\ bearer.sub \in DOMAIN users
                            /\ users[bearer.sub].is_active
                IN  /\ resp.status = IF good THEN 200 ELSE 401
                    /\ good => resp.user.email = bearer.sub
          /\ (/\ Handled(t)
              /\ Top(tasks[t].stk).req.ep = EpRefresh
              /\ Top(tasks[t].stk).req.refresh_token.k = "rt"
              /\ Issued(Top(tasks[t].stk).req.refresh_token.raw)) =>
                LET row == Row(Top(tasks[t].stk).req.refresh_token.raw)
                    resp == Top(tasks'[t].stk).resp
                IN  (/\ ~row.is_revoked
                     /\ now < row.expires_at
                     /\ users[row.user].is_active) =>
                        /\ resp.status = 200
                        /\ resp.access_token.k = "jwt"
                        /\ resp.access_token.sub = row.user
                        /\ resp.access_token.exp = now + AccessTokenMinutes
          /\ (Settled(t) /\ tasks'[t].nRetry = tasks[t].nRetry + 1) =>
                /\ RefreshInFlight(t) /\ RefreshSucceeds(t)
                /\ accessToken' = Top(tasks[t].stk).resp.access_token
                /\ Top(tasks'[t].stk).pc = "sent"
                /\ Top(tasks'[t].stk).req.ep = tasks[t].stk[Len(tasks[t].stk) - 3].req.ep
                /\ Top(tasks'[t].stk).req.bearer = accessToken'
      ]_vars

\* C10 witness: a getCurrentUser() has ended with the user after one 401, one
\* refresh and one retry.
C10_Witness ==
    /\ done.fn = "getCurrentUser"
    /\ done.nRefresh = 1
    /\ done.nRetry = 1
    /\ done.res.k = "ret"
    /\ done.res.v # Null
    /\ done.res.v.email = AdminEmail
    /\ now >= AccessTokenMinutes

-----------------------------------------------------------------------------
(* Properties of the API under concurrent callers *)

\* the store after this step
DbNext ==
    [users |-> users', refreshTokens |-> refreshTokens', resetTokens |-> resetTokens',
     nextRT |-> nextRT', nextPT |-> nextPT']

\* C3: once a logout (revoke) of a refresh token has been seen to complete, no
\* refresh with that token handled afterwards succeeds, whatever requests were
\* in flight meanwhile; and an issued refresh token that is not exchangeable
\* (revoked or expired) is not exchangeable after any step.
C3_RevokedNeverExchanged ==
    [][/\ \A t \in 1..MaxTasks :
            (/\ Handled(t)
             /\ Top(tasks[t].stk).req.ep = EpRefresh
             /\ Top(tasks[t].stk).req.refresh_token.raw \in completedRevokes) =>
                /\ Top(tasks'[t].stk).resp = AuthFailure
                /\ Top(tasks'[t].stk).resp.access_token = Null
       /\ \A raw \in 1..MaxRefreshTokens + 1 :
            (raw < nextRT /\ ~RefreshTokenValid(Db, raw, now)) =>
                ~RefreshTokenValid(DbNext, raw, now')
      ]_vars

\* C3 witness: a refresh of a token was answered with a new access token and
\* is still on its way back when, the logout of that token having completed, a
\* second refresh of the unexpired token is refused.
C3_Witness ==
    \E t, u \in 1..MaxTasks :
        /\ Suspended(t) /\ Suspended(u)
        /\ Top(tasks[t].stk).pc = "answered"
        /\ Top(tasks[t].stk).req.ep = EpRefresh
        /\ Top(tasks[t].stk).req.refresh_token.raw \in completedRevokes
        /\ Top(tasks[t].stk).resp = AuthFailure
        /\ Top(tasks[u].stk).pc = "answered"
        /\ Top(tasks[u].stk).req = Top(tasks[t].stk).req
        /\ Top(tasks[u].stk).resp.success
        /\ now < RefreshTTL

-----------------------------------------------------------------------------
(* Properties of refresh *)

\* call t is a refreshAccessToken() that returns true in this step
RefreshReturnsTrue(t) ==
    /\ tasks[t].fn = "refreshAccessToken"
    /\ Len(tasks[t].stk) = 3
    /\ Top(tasks[t].stk).pc = "answered"
    /\ Settled(t)
    /\ tasks'[t].stk = << >>
    /\ done'.res = Ret(Bool(TRUE))

\* C11: a successful refresh issues an access token with the role the account
\* has in the store when the refresh is handled, whatever it was at login, and
\* when refreshAccessToken() returns true the client holds that token and its
\* stored user, which hasRole reads, has the role of the refresh response.
C11_RefreshRereadsRole ==
    [][\A t \in 1..MaxTasks :
          /\ (/\ Handled(t)
              /\ Top(tasks[t].stk).req.ep = EpRefresh
              /\ Top(tasks'[t].stk).resp.success) =>
                LET row == Row(Top(tasks[t].stk).req.refresh_token.raw)
                    resp == Top(tasks'[t].stk).resp
                IN  /\ resp.access_token.sub = row.user
                    /\ resp.access_token.role = users[row.user].role
                    /\ resp.user.role = users[row.user].role
          /\ RefreshReturnsTrue(t) =>
                LET resp == Top(tasks[t].stk).resp IN
                    /\ accessToken' = resp.access_token
                    /\ localStorage'.access_token = resp.access_token
                    /\ getCurrentUserFromStorage(localStorage').role = resp.access_token.role
                    /\ \A r \in KnownRoles :
                          hasRole(localStorage', r) <=>
                              RoleLevel(resp.access_token.role) >= RoleLevel(r)
      ]_vars

\* C11 witness: the account logged in as admin, was made analyst, and a
\* refreshAccessToken() has returned true: token and stored user say analyst.
C11_Witness ==
    /\ done.fn = "refreshAccessToken"
    /\ done.res = Ret(Bool(TRUE))
    /\ accessToken # Null
    /\ accessToken.role = "analyst"
    /\ users[AdminEmail].role = "analyst"
    /\ getCurrentUserFromStorage(localStorage) # Null
    /\ getCurrentUserFromStorage(localStorage).role = "analyst"
    /\ ~isAdmin(localStorage)

\* C12: refresh does not rotate the refresh token. A successful refresh leaves
\* the table of refresh tokens as it was, so the token is still valid with the
\* same expiry, and its response carries no refresh token; when
\* refreshAccessToken() returns true the refresh token in memory and in
\* localStorage is the one held before.
C12_RefreshKeepsRefreshToken ==
    [][\A t \in 1..MaxTasks :
          /\ (/\ Handled(t)
              /\ Top(tasks[t].stk).req.ep = EpRefresh
              /\ Top(tasks'[t].stk).resp.success) =>
                /\ refreshTokens' = refreshTokens
                /\ Top(tasks'[t].stk).resp.refresh_token = Null
                /\ RefreshTokenValid(DbNext, Top(tasks[t].stk).req.refresh_token.raw, now')
          /\ RefreshReturnsTrue(t) =>
                /\ refreshToken' = refreshToken
                /\ localStorage'.refresh_token = localStorage.refresh_token
      ]_vars

\* C12 witness: a refreshAccessToken() has returned true, and a second exchange
\* of the same refresh token, still the one the client holds, has succeeded.
C12_Witness ==
    /\ done.fn = "refreshAccessToken"
    /\ done.res = Ret(Bool(TRUE))
    /\ refreshToken # Null
    /\ localStorage.refresh_token = refreshToken
    /\ \E t \in 1..MaxTasks :
          /\ tasks[t].fn = "refreshAccessToken"
          /\ Suspended(t)
          /\ Top(tasks[t].stk).pc = "answered"
          /\ Top(tasks[t].stk).req.refresh_token = refreshToken
          /\ Top(tasks[t].stk).resp.success

-----------------------------------------------------------------------------
(* Properties of logout *)

LogoutCalls == {"logout", "AuthContext.logout"}

LoggedOut(at, rt, ls) == at = Null /\ rt = Null /\ ls = NoTokens

LogoutRequest(tok) == [Req(EpLogout, Null) EXCEPT !.refresh_token = tok]

LoggedOutOk == Resp(200, TRUE, "Logged out successfully")

\* C13: revoke / logout is idempotent and never an error. On the server a logout
\* is answered with the same success for a valid, an already revoked, an unknown
\* and a missing token; for all but a valid one the store is left as it is, and
\* a second revoke changes nothing the first did not. On the client a logout()
\* with no refresh token held sends no request, and a logout() that ends at once
\* in the logged-out state leaves that state as it is.
C13_LogoutIdempotent ==
    [][/\ \A tok \in {RT(raw) : raw \in RawRefreshTokens} \cup {Null} :
            LET once == ServeLogout(Db, LogoutRequest(tok), now)
                twice == ServeLogout(once.db, LogoutRequest(tok), now)
            IN  /\ once.resp = LoggedOutOk
                /\ twice = once
                /\ (\/ tok = Null
                    \/ ~Issued(tok.raw)
                    \/ Row(tok.raw).is_revoked) => once.db = Db
       /\ \A t \in 1..MaxTasks :
            (/\ Handled(t)
             /\ Top(tasks[t].stk).req.ep = EpLogout
             /\ Top(tasks'[t].stk).resp # ServerError) =>
                /\ Top(tasks'[t].stk).resp = LoggedOutOk
                /\ DbNext = ServeLogout(Db, Top(tasks[t].stk).req, now).db
       /\ \A t \in 1..MaxTasks :
            (/\ Free(t)
             /\ tasks'[t].fn \in LogoutCalls
             /\ tasks'[t].stk # << >>) => refreshToken # Null
       /\ (/\ tasks' = tasks
           /\ done' # done
           /\ done'.fn \in LogoutCalls
           /\ LoggedOut(accessToken, refreshToken, localStorage)) =>
                /\ LoggedOut(accessToken', refreshToken', localStorage')
                /\ nCalls' = nCalls
      ]_vars

\* C13 witness: the logout of a refresh token has completed, and a second logout
\* request for the same, now revoked, token has been answered with success.
C13_Witness ==
    \E t \in 1..MaxTasks :
        /\ Suspended(t)
        /\ Top(tasks[t].stk).pc = "answered"
        /\ Top(tasks[t].stk).req.ep = EpLogout
        /\ Top(tasks[t].stk).req.refresh_token.raw \in completedRevokes
        /\ Row(Top(tasks[t].stk).req.refresh_token.raw).is_revoked
        /\ Top(tasks[t].stk).resp = LoggedOutOk

CtxLoggedOut == [user |-> Null, loading |-> FALSE, error |-> Null]

\* C14: logout always clears local state. When the request of a logout settles,
\* answered with success, answered with an error, or rejected, the call ends
\* there, and whenever a logout ends the access token, the refresh token and
\* the stored user are gone from memory and from localStorage; when it is
\* AuthContext.logout that ends, user is null, error is null and loading is
\* false.
C14_LogoutAlwaysClears ==
    [][/\ \A t \in 1..MaxTasks :
            /\ (Settled(t) /\ tasks[t].fn \in LogoutCalls) => tasks'[t].stk = << >>
            /\ (/\ ~Free(t)
                /\ tasks[t].fn \in LogoutCalls
                /\ tasks'[t].stk = << >>) =>
                   /\ LoggedOut(accessToken', refreshToken', localStorage')
                   /\ tasks[t].fn = "AuthContext.logout" => ctx' = CtxLoggedOut
       /\ (tasks' = tasks /\ done' # done /\ done'.fn \in LogoutCalls) =>
            /\ LoggedOut(accessToken', refreshToken', localStorage')
            /\ done'.fn = "AuthContext.logout" => ctx' = CtxLoggedOut
      ]_vars

\* C14 witness: after a login, AuthContext.logout has ended although its
\* request did not succeed (the refresh token is not revoked on the server):
\* the client holds nothing and the provider has no user.
C14_Witness ==
    /\ done.fn = "AuthContext.logout"
    /\ done.nRefresh = 0
    /\ nextRT = 2
    /\ nCalls = 2
    /\ Issued(1)
    /\ ~Row(1).is_revoked
    /\ LoggedOut(accessToken, refreshToken, localStorage)
    /\ ctx = CtxLoggedOut

-----------------------------------------------------------------------------
(* Properties of the forms *)

\* C15: the signup form and the reset-password form accept the same passwords,
\* those of the password policy: a form reports no error on its password field
\* iff the password has at least 8 characters, an uppercase letter, a lowercase
\* letter and a digit.
C15_FormsFollowPasswordPolicy ==
    formCheck.k = "check" =>
        (~formCheck.passwordError <=> PasswordPolicyOK(formCheck.password))

-----------------------------------------------------------------------------
(* Properties of calls that wait *)

\* C16: every login or refresh call of the session client comes to an end,
\* also when the server never answers.
C16_LoginAndRefreshEnd ==
    \A t \in 1..MaxTasks :
        (tasks[t].fn \in {"login", "refreshAccessToken"} /\ tasks[t].stk # << >>)
            ~> (tasks[t].stk = << >>)

-----------------------------------------------------------------------------
(* Inactive accounts *)

\* the account a login or a refresh is for is in the store and is not active
InactiveSubject(req) ==
    \/ /\ req.ep = EpLogin
       /\ req.email \in DOMAIN users
       /\ ~users[req.email].is_active
    \/ /\ req.ep = EpRefresh
       /\ req.refresh_token # Null
       /\ Issued(req.refresh_token.raw)
       /\ ~users[Row(req.refresh_token.raw).user].is_active

AccountInactive == Resp(403, FALSE, "Account is inactive")

\* C18: no tokens are issued for an inactive account. A login or a refresh for
\* an account whose active flag is false when the call is handled fails, returns
\* no access token and no refresh token, and adds no refresh token record; a
\* login with the right password is answered AccountInactive. This includes an
\* account deactivated after an earlier successful login.
C18_InactiveGetsNoTokens ==
    [][(Answered /\ InactiveSubject(last'.req)) =>
            /\ ~last'.resp.success
            /\ last'.resp.access_token = Null
            /\ last'.resp.refresh_token = Null
            /\ refreshTokens' = refreshTokens
            /\ nextRT' = nextRT
            /\ (/\ last'.req.ep = EpLogin
                /\ users[last'.req.email].password_hash = HashPassword(last'.req.password))
                    => last'.resp = AccountInactive
      ]_vars

\* C18 witness: a refresh was refused for a refresh token that a login issued,
\* that is neither revoked nor expired, and whose account was deactivated after
\* the login.
C18_Witness ==
    /\ last.req.ep = EpRefresh
    /\ Issued(last.req.refresh_token.raw)
    /\ ~Row(last.req.refresh_token.raw).is_revoked
    /\ now < Row(last.req.refresh_token.raw).expires_at
    /\ ~users[Row(last.req.refresh_token.raw).user].is_active
    /\ ~last.resp.success
    /\ last.resp.access_token = Null

-----------------------------------------------------------------------------
(* The revocation check without the store *)

\* the store of this state with refresh token raw revoked
DbRevoked(raw) == [Db EXCEPT !.refreshTokens[TokenHash(raw)].is_revoked = TRUE]

\* C19: revocation checks fail closed. A refresh handled while the store cannot
\* be read does not succeed and issues no access token; for a token of the
\* store it is answered exactly as a refresh with that token revoked would be,
\* and the store is left as it is.
C19_RevocationFailsClosed ==
    [][\A t \in 1..MaxTasks :
          (/\ Handled(t)
           /\ Top(tasks[t].stk).req.ep = EpRefresh
           /\ ~storeUp) =>
              /\ ~Top(tasks'[t].stk).resp.success
              /\ Top(tasks'[t].stk).resp.access_token = Null
              /\ DbNext = Db
              /\ Issued(Top(tasks[t].stk).req.refresh_token.raw) =>
                    Top(tasks'[t].stk).resp =
                        ServeRefresh(DbRevoked(Top(tasks[t].stk).req.refresh_token.raw),
                                     Top(tasks[t].stk).req, now).resp
      ]_vars

\* C19 witness: while the store is unreadable a refresh has been answered with
\* the authentication failure, for a refresh token that is in the store, not
\* revoked and not expired, of an active account.
C19_Witness ==
    \E t \in 1..MaxTasks :
        /\ ~storeUp
        /\ Suspended(t)
        /\ Top(tasks[t].stk).pc = "answered"
        /\ Top(tasks[t].stk).req.ep = EpRefresh
        /\ Top(tasks[t].stk).resp = AuthFailure
        /\ RefreshTokenValid(Db, Top(tasks[t].stk).req.refresh_token.raw, now)
        /\ users[Row(Top(tasks[t].stk).req.refresh_token.raw).user].is_active

-----------------------------------------------------------------------------
(* Signup, then login *)

LoginRequest(email, password) ==
    [Req(EpLogin, Null) EXCEPT !.email = email, !.password = password]

\* the role of an account signed up with role r
SignedUpRole(r) == IF r = "" THEN "guest" ELSE r

\* signup of (e, pw) with role r and then login with (e, pw), from this state
SignupThenLogin(e, pw, r) ==
    LET s == ServeSignup(Db, SignupRequest(e, pw, r), now)
        l == ServeLogin(s.db, LoginRequest(e, pw), now)
    IN  /\ s.resp.success
        /\ l.resp.success
        /\ l.resp.user.role = SignedUpRole(r)
        /\ l.resp.access_token.role = SignedUpRole(r)

-----------------------------------------------------------------------------
(* Properties of the reset-password page *)

\* the request of call t is the validation of the token of the page, and it
\* settles in this step with a successful response
ValidatedNow(t) ==
    /\ Settled(t)
    /\ tasks[t].fn = "ResetPassword.validateToken"
    /\ Top(tasks[t].stk).pc = "answered"
    /\ Top(tasks[t].stk).resp.success
    /\ page.token # Null
    /\ Top(tasks[t].stk).req.ep = EpValidate
    /\ Top(tasks[t].stk).req.token = page.token.raw

\* C17: validateResetToken fails closed, and the reset form follows it. The
\* server reports a token valid only if it is known, unused and unexpired. The
\* page comes to show the new-password form only in a step in which the
\* validation of the token of its URL settles with success; when the validation
\* settles in any other way (an unsuccessful response, a rejected fetch) the
\* page shows the invalid-token screen, and so does a page opened without a
\* token, which sends nothing. Every resetPassword request sent carries the
\* token of the page, which has been validated.
C17_ResetFormFollowsValidation ==
    [][/\ Screen(page') = "form" =>
            \/ Screen(page) = "form" /\ page'.token = page.token
            \/ \E t \in 1..MaxTasks : ValidatedNow(t) /\ page'.token = page.token
       /\ \A t \in 1..MaxTasks :
            /\ (/\ Settled(t)
                /\ tasks[t].fn = "ResetPassword.validateToken"
                /\ ~ValidatedNow(t)) => Screen(page') = "invalid"
            /\ (/\ Handled(t)
                /\ Top(tasks[t].stk).req.ep = EpValidate
                /\ Top(tasks'[t].stk).resp.success) =>
                   ResetTokenValid(Db, Top(tasks[t].stk).req.token, now)
            /\ (/\ tasks'[t].stk # << >>
                /\ Top(tasks'[t].stk).req.ep = EpReset) =>
                   /\ page'.token # Null
                   /\ page'.tokenValid
                   /\ Top(tasks'[t].stk).req.token = page'.token.raw
       /\ (page' # page /\ page'.mounted /\ page'.token = Null) =>
            /\ Screen(page') = "invalid"
            /\ tasks' = tasks
      ]_vars

\* C17 witness: the page was opened with an issued token, the validation
\* succeeded, the form was shown and submitted, and the password was reset;
\* the token is used now.
C17_Witness ==
    /\ done.fn = "ResetPassword.handleSubmit"
    /\ Screen(page) = "form"
    /\ page.success # ""
    /\ page.token # Null
    /\ ~ResetTokenValid(Db, page.token.raw, now)

-----------------------------------------------------------------------------
(* Tokens in memory and in localStorage *)

\* call t is a login() that returns in this step a response with tokens
LoginStoresTokens(t) ==
    /\ tasks[t].fn = "login"
    /\ Len(tasks[t].stk) = 3
    /\ Top(tasks[t].stk).pc = "answered"
    /\ Settled(t)
    /\ Ok(Top(tasks[t].stk).resp)
    /\ Top(tasks[t].stk).resp.success
    /\ Top(tasks[t].stk).resp.access_token # Null
    /\ Top(tasks[t].stk).resp.refresh_token # Null
    /\ tasks'[t].stk = << >>
    /\ done'.res = Ret(Top(tasks[t].stk).resp)

\* C21: the tokens in memory are the tokens in localStorage. In every state
\* accessToken and refreshToken equal the values under access_token and
\* refresh_token; a successful login sets both tokens of its response in both
\* places, a successful refresh replaces the access token in both places and
\* leaves the refresh token, and when a logout ends both tokens and the stored
\* user are gone.
C21_MemoryMatchesStorage ==
    [][/\ accessToken' = localStorage'.access_token
       /\ refreshToken' = localStorage'.refresh_token
       /\ \A t \in 1..MaxTasks :
            /\ LoginStoresTokens(t) =>
                  /\ accessToken' = Top(tasks[t].stk).resp.access_token
                  /\ refreshToken' = Top(tasks[t].stk).resp.refresh_token
            /\ RefreshReturnsTrue(t) =>
                  /\ accessToken' = Top(tasks[t].stk).resp.access_token
                  /\ refreshToken' = refreshToken
            /\ (~Free(t) /\ tasks[t].fn = "logout" /\ tasks'[t].stk = << >>) =>
                  LoggedOut(accessToken', refreshToken', localStorage')
      ]_vars

\* C21 witness: after a login and a later refresh the client holds the access
\* token the refresh issued, in memory and in localStorage, beside the refresh
\* token of the login.
C21_Witness ==
    /\ done.fn = "refreshAccessToken"
    /\ done.res = Ret(Bool(TRUE))
    /\ now > 0
    /\ accessToken # Null
    /\ accessToken.exp = now + AccessTTL
    /\ localStorage.access_token = accessToken
    /\ refreshToken # Null
    /\ localStorage.refresh_token = refreshToken

-----------------------------------------------------------------------------
(* 401 in the service clients *)

\* C22: a 401 answer to a request of a service client is handled as in
\* AuthService.request. When a call of a service client settles while a refresh
\* token is held, a logout is started in that step only if the call has made a
\* refresh request before.
C22_ServiceRefreshesBeforeLogout ==
    [][\A t \in 1..MaxTasks :
          (/\ tasks[t].fn = "service"
           /\ Settled(t)
           /\ refreshToken # Null
           /\ \E u \in 1..MaxTasks : u # t /\ Free(u) /\ tasks'[u].fn = "logout")
              => tasks[t].nRefresh >= 1
      ]_vars

-----------------------------------------------------------------------------
(* Termination of logout *)

\* the requests a call has made: its own, its refresh requests and its retries
RequestsOf(task) == 1 + task.nRefresh + task.nRetry

\* C23: logout makes a bounded number of requests and ends with the tokens
\* cleared, whatever the server answers: a logout() makes at most its own
\* request, one refresh request and one retry, and when it ends the tokens and
\* the stored user are gone.
C23_LogoutTerminates ==
    [][\A t \in 1..MaxTasks :
          (tasks[t].fn = "logout" /\ ~Free(t)) =>
              /\ tasks'[t].fn = "logout" => RequestsOf(tasks'[t]) <= 3
              /\ tasks'[t].stk = << >> =>
                    /\ RequestsOf(done') <= 3
                    /\ LoggedOut(accessToken', refreshToken', localStorage')
      ]_vars

-----------------------------------------------------------------------------
(* Logged out until the next login *)

\* C24: once logged out, the client stays logged out until the next successful
\* login: from a state with no tokens and no stored user, every step that is
\* not the return of a successful login leaves isAuthenticated() false and
\* hasRole(r) false for every known role r, whatever responses of requests
\* sent before the logout arrive.
C24_StaysLoggedOut ==
    [][(/\ LoggedOut(accessToken, refreshToken, localStorage)
        /\ ~\E t \in 1..MaxTasks : LoginStoresTokens(t)) =>
            /\ ~isAuthenticated(accessToken')
            /\ \A r \in KnownRoles : ~hasRole(localStorage', r)
      ]_vars

-----------------------------------------------------------------------------
(* The token pair *)

\* C25: starting from an empty localStorage, in every state an access token is
\* held iff a refresh token is held.
C25_TokensComeInPairs ==
    (accessToken # Null) <=> (refreshToken # Null)

-----------------------------------------------------------------------------
(* What request() returns *)

\* the last response of the request() under login() t arrives in this step,
\* it is not ok, and login ends
LastResponseNotOk(t) ==
    /\ tasks[t].fn = "login"
    /\ Len(tasks[t].stk) = 3
    /\ tasks[t].stk[2].fn = "request"
    /\ Top(tasks[t].stk).pc = "answered"
    /\ ~Ok(Top(tasks[t].stk).resp)
    /\ Settled(t)
    /\ tasks'[t].stk = << >>

\* C26: request() returns data only for a successful final response. When the
\* last response of a request (the first one, or the retry after a refresh) is
\* not ok, request() throws; login(), which returns what request() returned and
\* throws what it threw, then ends by throwing.
C26_NotOkThrows ==
    [][\A t \in 1..MaxTasks : LastResponseNotOk(t) => done'.res.k = "throw"]_vars

-----------------------------------------------------------------------------
(* Role checks with roles outside the known set *)

\* C27: hasRole(r) is true only for a required role r of {guest, analyst,
\* admin}. For any other required role string hasRole is false for every
\* stored user, and a stored user whose role is not of the set passes no check
\* for a role of the set.
C27_UnknownRoleDenied ==
    (roleCheck.k = "check" /\ roleCheck.fn = "hasRole") =>
        /\ roleCheck.required \notin KnownRoles => ~roleCheck.result
        /\ (/\ roleCheck.stored.k = "json"
            /\ roleCheck.stored.v.role \notin KnownRoles
            /\ roleCheck.required \in KnownRoles) => ~roleCheck.result

-----------------------------------------------------------------------------
(* The two role sources of the client *)

\* C28: the role of the AuthContext user and the role of the stored user never
\* drift. In every state where the AuthContext user is non-null and the
\* provider is not loading, a user is stored and has the same role, and
\* AdminRoute admits the user exactly when isAdmin() is true.
C28_RoleSourcesAgree ==
    (ctx.user # Null /\ ~ctx.loading) =>
        /\ getCurrentUserFromStorage(localStorage) # Null
        /\ getCurrentUserFromStorage(localStorage).role = ctx.user.role
        /\ AdminRouteAdmits(accessToken, ctx) <=> isAdmin(localStorage)

-----------------------------------------------------------------------------
(* A login that fails *)

\* call t is a login() with a password that is not the account's: the server
\* refuses it whenever it is asked
BadCredentialsLogin(t) ==
    /\ tasks[t].fn = "login"
    /\ ~Free(t)
    /\ tasks[t].stk[2].req.ep = EpLogin
    /\ users[tasks[t].stk[2].req.email].password_hash
          # HashPassword(tasks[t].stk[2].req.password)

\* C29: a failed login changes no session state. No step of a login() with bad
\* credentials changes the tokens in memory, the tokens in localStorage or the
\* stored user.
C29_FailedLoginChangesNothing ==
    [][\A t \in 1..MaxTasks :
          (BadCredentialsLogin(t) /\ tasks'[t] # tasks[t]) =>
              /\ accessToken' = accessToken
              /\ refreshToken' = refreshToken
              /\ localStorage' = localStorage
      ]_vars

-----------------------------------------------------------------------------
(* Session restore at start-up *)

\* initializeAuth t ends in this step
InitializeAuthEnds(t) ==
    /\ tasks[t].fn = "AuthContext.initializeAuth"
    /\ ~Free(t)
    /\ tasks'[t].stk = << >>

\* the request that settles in this step is the /api/auth/me of call t,
\* answered with the user
MeReturnedUser(t, user) ==
    /\ Top(tasks[t].stk).pc = "answered"
    /\ Top(tasks[t].stk).req.ep = EpMe
    /\ Top(tasks[t].stk).resp.success
    /\ Top(tasks[t].stk).resp.user = user

\* C30: session restore at start-up is confirmed by the server. When
\* initializeAuth ends, loading is false; the AuthContext user is non-null only
\* if /api/auth/me has returned that user; otherwise the client is logged out,
\* with no tokens and no stored user.
C30_RestoreConfirmedByServer ==
    [][\A t \in 1..MaxTasks :
          InitializeAuthEnds(t) =>
              /\ ~ctx'.loading
              /\ ctx'.user # Null => MeReturnedUser(t, ctx'.user)
              /\ ctx'.user = Null =>
                    LoggedOut(accessToken', refreshToken', localStorage')
      ]_vars

=============================================================================
